---- MODULE Spec2Model ----
(***************************************************************************)
(* Model of the link checker of the documentation repository               *)
(* (scripts/checkers): path resolution, link validation, the five-tier     *)
(* fix-suggestion engine, the line rewriter, the fix-mode driver, the      *)
(* anchor slug generator and the fence-aware Markdown parser.              *)
(*                                                                         *)
(* Strings are TLA+ strings; TLC evaluates Len, SubSeq and \o on them, so  *)
(* the JavaScript string and regular-expression operations of the source   *)
(* are modelled character by character.                                    *)
(***************************************************************************)
EXTENDS Integers, Sequences, FiniteSets, TLC

(***************************************************************************)
(* JavaScript values                                                       *)
(***************************************************************************)
\* The value of an absent optional field (anchor?, error?, resolvedPath?).
Undefined == "<undefined>"

\* JavaScript truthiness of an optional string.
Truthy(s) == s # Undefined /\ s # ""

Min(a, b) == IF a <= b THEN a ELSE b

Max(a, b) == IF a >= b THEN a ELSE b

(***************************************************************************)
(* String primitives                                                       *)
(***************************************************************************)
CharAt(s, i) == SubSeq(s, i, i)

\* The grave accent, which a TLA+ string cannot hold, is written as the acute
\* accent; no text of the model holds an acute accent of its own.
Backtick == "´"

StartsWith(s, p) == Len(p) <= Len(s) /\ SubSeq(s, 1, Len(p)) = p

EndsWith(s, p) == Len(p) <= Len(s) /\ SubSeq(s, Len(s) - Len(p) + 1, Len(s)) = p

\* s.substring(i) with a 1-based start.
From(s, i) == SubSeq(s, i, Len(s))

\* Whether sub occurs in s at the 1-based position i.
OccursAt(s, sub, i) == i >= 1 /\ i + Len(sub) - 1 <= Len(s) /\ SubSeq(s, i, i + Len(sub) - 1) = sub

\* s.indexOf(sub) as a 1-based position, 0 when there is none (JavaScript's -1).
RECURSIVE IndexFrom(_, _, _)
IndexFrom(s, sub, i) ==
    IF i + Len(sub) - 1 > Len(s) THEN 0
    ELSE IF SubSeq(s, i, i + Len(sub) - 1) = sub THEN i
    ELSE IndexFrom(s, sub, i + 1)

IndexOf(s, sub) == IndexFrom(s, sub, 1)

Includes(s, sub) == IndexOf(s, sub) # 0

\* s.lastIndexOf(sub) as a 1-based position, 0 when there is none.
RECURSIVE LastIndexFrom(_, _, _)
LastIndexFrom(s, sub, i) ==
    IF i < 1 THEN 0
    ELSE IF SubSeq(s, i, i + Len(sub) - 1) = sub THEN i
    ELSE LastIndexFrom(s, sub, i - 1)

LastIndexOf(s, sub) == LastIndexFrom(s, sub, Len(s) - Len(sub) + 1)

\* s.split(sep) for a one-character separator: a sequence of strings.
\* start is where the current part begins, i the position looked at.
RECURSIVE SplitFrom(_, _, _, _)
SplitFrom(s, sep, start, i) ==
    IF i > Len(s) THEN <<SubSeq(s, start, Len(s))>>
    ELSE IF SubSeq(s, i, i) = sep
         THEN <<SubSeq(s, start, i - 1)>> \o SplitFrom(s, sep, i + 1, i + 1)
         ELSE SplitFrom(s, sep, start, i + 1)

Split(s, sep) == SplitFrom(s, sep, 1, 1)

\* parts.join(sep)
RECURSIVE JoinWith(_, _)
JoinWith(parts, sep) ==
    IF Len(parts) = 0 THEN ""
    ELSE IF Len(parts) = 1 THEN parts[1]
    ELSE parts[1] \o sep \o JoinWith(Tail(parts), sep)

\* s.replace(/c/g, d) for a one-character c.
ReplaceChar(s, c, d) == JoinWith(Split(s, c), d)

\* arr.filter(Boolean) on a sequence of strings: the non-empty ones.
RECURSIVE FilterNonEmpty(_)
FilterNonEmpty(parts) ==
    IF Len(parts) = 0 THEN <<>>
    ELSE (IF parts[1] = "" THEN <<>> ELSE <<parts[1]>>) \o FilterNonEmpty(Tail(parts))

\* s.replace(/\/+$/, '')
RECURSIVE LastNonSlash(_, _)
LastNonSlash(s, i) == IF i >= 1 /\ SubSeq(s, i, i) = "/" THEN LastNonSlash(s, i - 1) ELSE i

StripTrailingSlashes(s) == SubSeq(s, 1, LastNonSlash(s, Len(s)))

\* s.replace(/^\//, '')
StripLeadingSlash(s) == IF StartsWith(s, "/") THEN From(s, 2) ELSE s

\* s.replace(/\.md$/, '')
StripMdSuffix(s) == IF EndsWith(s, ".md") THEN SubSeq(s, 1, Len(s) - 3) ELSE s

\* s.replace(/^\.\//, '')
StripDotSlash(s) == IF StartsWith(s, "./") THEN From(s, 3) ELSE s

(***************************************************************************)
(* node:path (POSIX)                                                       *)
(***************************************************************************)
\* normalizeString: "." and empty segments are dropped, ".." removes the
\* segment before it, or is kept when there is none and the path is relative.
RECURSIVE NormalizeSegments(_, _, _)
NormalizeSegments(segs, acc, allowAboveRoot) ==
    IF Len(segs) = 0 THEN acc
    ELSE LET s == segs[1]
             rest == Tail(segs)
         IN  IF s = "" \/ s = "." THEN NormalizeSegments(rest, acc, allowAboveRoot)
             ELSE IF s = ".."
                  THEN IF Len(acc) > 0 /\ acc[Len(acc)] # ".."
                       THEN NormalizeSegments(rest, SubSeq(acc, 1, Len(acc) - 1), allowAboveRoot)
                       ELSE IF allowAboveRoot
                            THEN NormalizeSegments(rest, Append(acc, ".."), allowAboveRoot)
                            ELSE NormalizeSegments(rest, acc, allowAboveRoot)
                  ELSE NormalizeSegments(rest, Append(acc, s), allowAboveRoot)

\* path.normalize
PathNormalize(p) ==
    IF p = "" THEN "."
    ELSE LET isAbsolute == StartsWith(p, "/")
             trailing == EndsWith(p, "/")
             body == JoinWith(NormalizeSegments(Split(p, "/"), <<>>, ~isAbsolute), "/")
         IN  IF body = ""
             THEN (IF isAbsolute THEN "/" ELSE IF trailing THEN "./" ELSE ".")
             ELSE (IF isAbsolute THEN "/" ELSE "") \o body \o (IF trailing THEN "/" ELSE "")

\* path.join(a, b): the non-empty arguments joined by "/" and normalized.
PathJoin(a, b) ==
    IF a = "" /\ b = "" THEN "."
    ELSE PathNormalize(IF a = "" THEN b ELSE IF b = "" THEN a ELSE a \o "/" \o b)

\* path.dirname: the text before the last "/" that some non-slash character
\* follows, looking no further left than the second character.
DirnameCut(p) ==
    {k \in 2..Len(p) : CharAt(p, k) = "/" /\ \E j \in (k + 1)..Len(p) : CharAt(p, j) # "/"}

PathDirname(p) ==
    IF p = "" THEN "."
    ELSE IF DirnameCut(p) = {} THEN (IF StartsWith(p, "/") THEN "/" ELSE ".")
    ELSE LET k == CHOOSE c \in DirnameCut(p) : \A d \in DirnameCut(p) : d <= c
         IN  IF StartsWith(p, "/") /\ k = 2 THEN "//" ELSE SubSeq(p, 1, k - 1)

\* path.basename(p)
PathBasename(p) ==
    LET q == StripTrailingSlashes(p)
        k == LastIndexOf(q, "/")
    IN  From(q, k + 1)

\* path.extname(p): from the last "." of the last segment, "" when that
\* segment has no "." or only a leading one.
PathExtname(p) ==
    LET b == PathBasename(p)
        k == LastIndexOf(b, ".")
    IN  IF k <= 1 \/ b = ".." THEN "" ELSE From(b, k)

\* path.relative(from, to) for two paths relative to the same working
\* directory: climb out of what is left of from, then descend into to.
RECURSIVE CommonPrefixLen(_, _)
CommonPrefixLen(a, b) ==
    IF Len(a) = 0 \/ Len(b) = 0 \/ a[1] # b[1] THEN 0
    ELSE 1 + CommonPrefixLen(Tail(a), Tail(b))

PathRelative(from, to) ==
    LET f == NormalizeSegments(Split("/cwd/" \o from, "/"), <<>>, FALSE)
        t == NormalizeSegments(Split("/cwd/" \o to, "/"), <<>>, FALSE)
        c == CommonPrefixLen(f, t)
        ups == [i \in 1..(Len(f) - c) |-> ".."]
    IN  JoinWith(ups \o SubSeq(t, c + 1, Len(t)), "/")

(***************************************************************************)
(* shared/file-utils.ts                                                    *)
(***************************************************************************)
\* The directory every project-relative path is joined to.
ProjectRoot == "/p"

\* normalizePath
normalizePath(inputPath) ==
    StripDotSlash(StripTrailingSlashes(ReplaceChar(inputPath, "\\", "/")))

\* joinPaths(a, b)
joinPaths(a, b) == ReplaceChar(PathJoin(a, b), "\\", "/")

\* getDirectory
getDirectory(filePath) == PathDirname(filePath)

\* getBasename(filePath, includeExt)
getBasename(filePath, includeExt) ==
    LET b == PathBasename(filePath)
        e == PathExtname(filePath)
    IN  IF includeExt THEN b
        ELSE IF e # "" /\ e # b /\ EndsWith(b, e) THEN SubSeq(b, 1, Len(b) - Len(e)) ELSE b

\* fileExists(fullPath) on a tree whose regular files are the paths
\* ProjectRoot/f for the project-relative, normalized paths f in fs; a
\* directory, or a path outside the project, is not a file of the tree.
fileExists(fs, fullPath) ==
    /\ StartsWith(fullPath, ProjectRoot \o "/")
    /\ From(fullPath, Len(ProjectRoot) + 2) \in fs

(***************************************************************************)
(* String.prototype.toLowerCase on ASCII                                   *)
(***************************************************************************)
UpperLetters == "ABCDEFGHIJKLMNOPQRSTUVWXYZ"

LowerLetters == "abcdefghijklmnopqrstuvwxyz"

\* The lower-case letter of each upper-case letter.
LowerOf ==
    [c \in {CharAt(UpperLetters, k) : k \in 1..Len(UpperLetters)} |->
        CharAt(LowerLetters, IndexOf(UpperLetters, c))]

LowerChar(c) == IF c \in DOMAIN LowerOf THEN LowerOf[c] ELSE c

RECURSIVE LowerFrom(_, _)
LowerFrom(s, i) == IF i > Len(s) THEN "" ELSE LowerChar(SubSeq(s, i, i)) \o LowerFrom(s, i + 1)

ToLower(s) == LowerFrom(s, 1)

(***************************************************************************)
(* shared/gitbook-yaml.ts: the redirect table                              *)
(***************************************************************************)
\* RedirectMap.fromToMap as built by parseGitBookYaml: fromToMap.set(from, to)
\* for each entry in file order, so the last entry of a key wins.
fromToMapHas(entries, key) == \E i \in 1..Len(entries) : entries[i].from = key

\* A plausible slip: the first entry of a key wins.
fromToMapGetFirst(entries, key) ==
    LET first == CHOOSE i \in 1..Len(entries) :
                    entries[i].from = key /\ \A j \in 1..(i - 1) : entries[j].from # key
    IN  entries[first].to

fromToMapGet(entries, key) ==
    LET last == CHOOSE i \in 1..Len(entries) :
                    entries[i].from = key /\ \A j \in (i + 1)..Len(entries) : entries[j].from # key
    IN  entries[last].to

\* findRedirectTarget: the path as given, without its leading slash, without
\* its .md suffix, without both; the first key the table has, else undefined.
findRedirectTarget(entries, fromPath) ==
    LET withoutSlash == StripLeadingSlash(fromPath)
        withoutMd == StripMdSuffix(fromPath)
        withoutBoth == StripMdSuffix(withoutSlash)
    IN  IF fromToMapHas(entries, fromPath) THEN fromToMapGet(entries, fromPath)
        ELSE IF fromToMapHas(entries, withoutSlash) THEN fromToMapGet(entries, withoutSlash)
        ELSE IF fromToMapHas(entries, withoutMd) THEN fromToMapGet(entries, withoutMd)
        ELSE IF fromToMapHas(entries, withoutBoth) THEN fromToMapGet(entries, withoutBoth)
        ELSE Undefined

(***************************************************************************)
(* shared/path-utils.ts                                                    *)
(***************************************************************************)
\* isExternalLink: /^(https?:|mailto:|tel:|ftp:)/i
isExternalLink(link) ==
    LET lower == ToLower(link)
    IN  \E scheme \in {"http:", "https:", "mailto:", "tel:", "ftp:"} : StartsWith(lower, scheme)

\* isAnchorOnly
isAnchorOnly(link) == StartsWith(link, "#")

assetExtensions ==
    {".png", ".jpg", ".jpeg", ".gif", ".svg", ".webp", ".pdf", ".zip", ".tar", ".gz",
     ".mp4", ".webm", ".mov", ".mp3", ".wav", ".ogg"}

\* isAssetLink
isAssetLink(link) == ToLower(PathExtname(link)) \in assetExtensions

\* resolveRelativeLink(sourceFile, linkTarget, projectRoot) on the tree fs.
\* Lines 54-59: the result for a resolved path.
resolvedPath(fs, resolved, linkTarget, anchor) ==
    [resolved |-> resolved,
     exists |-> fileExists(fs, joinPaths(ProjectRoot, resolved)),
     original |-> linkTarget,
     anchor |-> anchor]

\* Lines 41-52: a path without any "." falls back to path.md, then to
\* path/README.md, when that file exists.
resolveFallback(fs, resolved, fullPath) ==
    IF ~EndsWith(resolved, ".md") /\ ~Includes(resolved, ".")
    THEN IF fileExists(fs, fullPath \o ".md") THEN resolved \o ".md"
         ELSE IF fileExists(fs, joinPaths(fullPath, "README.md"))
              THEN joinPaths(resolved, "README.md")
              ELSE resolved
    ELSE resolved

\* A plausible slip: every target taken relative to the source directory.
resolveTargetNoRoot(sourceFile, target) ==
    normalizePath(PathJoin(PathDirname(sourceFile), target))

\* Lines 28-39: a target with a leading "/" is relative to the project root,
\* any other to the directory of the source file.
resolveTarget(sourceFile, target) ==
    normalizePath(IF StartsWith(target, "/")
                  THEN From(target, 2)
                  ELSE PathJoin(PathDirname(sourceFile), target))

resolveSplit(fs, sourceFile, linkTarget, target, anchor) ==
    IF target = ""
    THEN [resolved |-> sourceFile,
          exists |-> fileExists(fs, joinPaths(ProjectRoot, sourceFile)),
          original |-> linkTarget,
          anchor |-> anchor]
    ELSE LET resolved == resolveTarget(sourceFile, normalizePath(target))
         IN  resolvedPath(fs, resolveFallback(fs, resolved, joinPaths(ProjectRoot, resolved)),
                          linkTarget, anchor)

resolveRelativeLink(fs, sourceFile, linkTarget) ==
    LET anchorIndex == IndexOf(linkTarget, "#")
    IN  IF anchorIndex # 0
        THEN resolveSplit(fs, sourceFile, linkTarget,
                          SubSeq(linkTarget, 1, anchorIndex - 1), From(linkTarget, anchorIndex + 1))
        ELSE resolveSplit(fs, sourceFile, linkTarget, linkTarget, Undefined)

(***************************************************************************)
(* link-checker/parsers/markdown.ts: createParsedLink                      *)
(***************************************************************************)
\* The kind of a cleaned target, by priority.
linkType(target) ==
    IF isExternalLink(target) THEN "external"
    ELSE IF isAnchorOnly(target) THEN "anchor-only"
    ELSE IF isAssetLink(target) THEN "asset"
    ELSE "internal"

\* createParsedLink for a target that is not external (an external one gives
\* null and is dropped by the caller): the anchor is split off the target.
createParsedLink(raw, text, target, line, column) ==
    LET anchorIndex == IndexOf(target, "#")
    IN  [raw |-> raw,
         text |-> text,
         target |-> IF anchorIndex # 0 THEN SubSeq(target, 1, anchorIndex - 1) ELSE target,
         anchor |-> IF anchorIndex # 0 THEN From(target, anchorIndex + 1) ELSE Undefined,
         line |-> line,
         column |-> column,
         type |-> linkType(target)]

(***************************************************************************)
(* link-checker/validators/link-validator.ts                               *)
(***************************************************************************)
\* A plausible slip: the redirect destination is not checked on disk.
redirectAvailableUnchecked(fs, entries, withMap, resolved) ==
    IF withMap THEN findRedirectTarget(entries, resolved) ELSE Undefined

\* validateLink, lines 489-503: the destination the redirect table gives the
\* resolved path when the table was passed and that destination is a file;
\* Undefined otherwise.
redirectAvailable(fs, entries, withMap, resolved) ==
    LET redirectTarget == findRedirectTarget(entries, resolved)
    IN  IF withMap /\ Truthy(redirectTarget)
           /\ fileExists(fs, joinPaths(ProjectRoot, redirectTarget))
        THEN redirectTarget
        ELSE Undefined

\* validateLink(sourceFile, link, projectRoot, redirectMap?); withMap tells
\* whether the optional redirect table was passed.
validateLink(fs, entries, withMap, sourceFile, link) ==
    IF link.type = "external"
    THEN [sourceFile |-> sourceFile, link |-> link, status |-> "valid",
          resolvedPath |-> link.target, error |-> Undefined]
    ELSE IF link.type = "anchor-only"
    THEN [sourceFile |-> sourceFile, link |-> link, status |-> "valid",
          resolvedPath |-> sourceFile, error |-> Undefined]
    ELSE LET resolved == resolveRelativeLink(fs, sourceFile, link.target)
             redirectTarget == redirectAvailable(fs, entries, withMap, resolved.resolved)
         IN  IF resolved.exists
             THEN [sourceFile |-> sourceFile, link |-> link, status |-> "valid",
                   resolvedPath |-> resolved.resolved, error |-> Undefined]
             ELSE IF Truthy(redirectTarget)
             THEN [sourceFile |-> sourceFile, link |-> link, status |-> "redirect-available",
                   resolvedPath |-> resolved.resolved,
                   error |-> "Target not found: " \o resolved.resolved
                             \o ". Redirect available to: " \o redirectTarget]
             ELSE [sourceFile |-> sourceFile, link |-> link, status |-> "broken",
                   resolvedPath |-> resolved.resolved,
                   error |-> "Target not found: " \o resolved.resolved]

\* validateFileLinks: one result per link, in order.
RECURSIVE validateLinksFrom(_, _, _, _, _)
validateLinksFrom(fs, entries, withMap, filePath, links) ==
    IF Len(links) = 0 THEN <<>>
    ELSE <<validateLink(fs, entries, withMap, filePath, links[1])>>
            \o validateLinksFrom(fs, entries, withMap, filePath, Tail(links))

validateFileLinks(fs, entries, withMap, fileLinks) ==
    validateLinksFrom(fs, entries, withMap, fileLinks.filePath, fileLinks.links)

\* getBrokenLinks: results.filter(r => r.status === 'broken')
RECURSIVE getBrokenLinks(_)
getBrokenLinks(rs) ==
    IF Len(rs) = 0 THEN <<>>
    ELSE (IF rs[1].status = "broken" THEN <<rs[1]>> ELSE <<>>) \o getBrokenLinks(Tail(rs))

(***************************************************************************)
(* fastest-levenshtein: distance(a, b)                                     *)
(***************************************************************************)
\* One row of the edit-distance table: row[j + 1] is the distance between
\* the prefix of a read so far and the first j characters of b.  acc holds
\* the cells of the row computed so far.
RECURSIVE LevRow(_, _, _, _)
LevRow(prev, ch, b, acc) ==
    IF Len(acc) > Len(b) THEN acc
    ELSE LET j == Len(acc)
             cost == IF SubSeq(b, j, j) = ch THEN 0 ELSE 1
             cell == Min(Min(prev[j + 1] + 1, acc[j] + 1), prev[j] + cost)
         IN  LevRow(prev, ch, b, Append(acc, cell))

\* prev is the row of the first prev[1] characters of a.
RECURSIVE LevRows(_, _, _)
LevRows(a, b, prev) ==
    IF prev[1] >= Len(a) THEN prev[Len(b) + 1]
    ELSE LevRows(a, b, LevRow(prev, SubSeq(a, prev[1] + 1, prev[1] + 1), b, <<prev[1] + 1>>))

levenshtein(a, b) == LevRows(a, b, [j \in 1..(Len(b) + 1) |-> j - 1])

(***************************************************************************)
(* link-checker/fixers/redirect-finder.ts                                  *)
(***************************************************************************)
\* The value of a missing suggestion (undefined).
NoSuggestion ==
    [confidence |-> "none", suggestedPath |-> Undefined, reason |-> Undefined,
     redirectEntry |-> Undefined]

\* getAllFiles(projectRoot, ['.md']): whether glob's pattern and ignore list
\* keep the file f of the tree.
IgnoredDirs == {"node_modules", "_book", "dist", ".git"}

IsIndexed(f) ==
    LET segs == Split(f, "/")
    IN  /\ EndsWith(f, ".md")
        /\ segs[Len(segs)] \notin {"SUMMARY.md", "README.md"}
        /\ \A k \in 1..(Len(segs) - 1) : segs[k] \notin IgnoredDirs

\* The files of a listing that are in the tree and that getAllFiles keeps,
\* in the order of the listing.
RECURSIVE getAllFiles(_, _)
getAllFiles(fs, listing) ==
    IF Len(listing) = 0 THEN <<>>
    ELSE (IF listing[1] \in fs /\ IsIndexed(listing[1]) THEN <<listing[1]>> ELSE <<>>)
            \o getAllFiles(fs, Tail(listing))

\* redirectMap.entries.find(e => e.from === variant || e.from === brokenPath)
RECURSIVE findEntry(_, _, _)
findEntry(entries, variant, brokenPath) ==
    IF Len(entries) = 0 THEN Undefined
    ELSE IF entries[1].from = variant \/ entries[1].from = brokenPath THEN entries[1]
    ELSE findEntry(Tail(entries), variant, brokenPath)

\* The four spellings of the broken path that are looked up, in order.
redirectVariations(brokenPath) ==
    <<brokenPath,
      StripLeadingSlash(brokenPath),
      StripMdSuffix(brokenPath),
      StripMdSuffix(StripLeadingSlash(brokenPath))>>

\* findRedirectSuggestion: the first variation whose redirect destination is
\* a file of the tree.
RECURSIVE redirectSuggestionFrom(_, _, _, _, _)
redirectSuggestionFrom(fs, entries, brokenPath, variations, k) ==
    IF k > Len(variations) THEN NoSuggestion
    ELSE LET redirectTarget == findRedirectTarget(entries, variations[k])
         IN  IF Truthy(redirectTarget) /\ fileExists(fs, joinPaths(ProjectRoot, redirectTarget))
             THEN [confidence |-> "high",
                   suggestedPath |-> redirectTarget,
                   reason |-> "Redirect exists in .gitbook.yaml",
                   redirectEntry |-> findEntry(entries, variations[k], brokenPath)]
             ELSE redirectSuggestionFrom(fs, entries, brokenPath, variations, k + 1)

findRedirectSuggestion(fs, entries, brokenPath) ==
    redirectSuggestionFrom(fs, entries, brokenPath, redirectVariations(brokenPath), 1)

\* calculatePathSimilarity as the fraction <<commonCount, totalSegments>>.
RECURSIVE countCommon(_, _)
countCommon(segments1, segments2) ==
    IF Len(segments1) = 0 THEN 0
    ELSE (IF \E k \in 1..Len(segments2) : segments2[k] = segments1[1] THEN 1 ELSE 0)
            + countCommon(Tail(segments1), segments2)

calculatePathSimilarity(path1, path2) ==
    LET segments1 == FilterNonEmpty(Split(path1, "/"))
        segments2 == FilterNonEmpty(Split(path2, "/"))
        totalSegments == Max(Len(segments1), Len(segments2))
    IN  IF totalSegments > 0 THEN <<countCommon(segments1, segments2), totalSegments>>
        ELSE <<0, 1>>

\* a > b for two fractions with positive denominators.
FracGreater(a, b) == a[1] * b[2] > b[1] * a[2]

\* arr.filter(pred) for the files whose basename equals that of the broken
\* path, compared in lower case.
RECURSIVE basenameMatches(_, _)
basenameMatches(cache, lowerBasename) ==
    IF Len(cache) = 0 THEN <<>>
    ELSE (IF ToLower(getBasename(cache[1], TRUE)) = lowerBasename THEN <<cache[1]>> ELSE <<>>)
            \o basenameMatches(Tail(cache), lowerBasename)

\* scored.sort((a, b) => b.score - a.score)[0]: the sort is stable, so the
\* first of the matches with the highest score.
bestScored(brokenPath, matches) ==
    CHOOSE k \in 1..Len(matches) :
        /\ \A l \in 1..Len(matches) :
              ~FracGreater(calculatePathSimilarity(brokenPath, matches[l]),
                           calculatePathSimilarity(brokenPath, matches[k]))
        /\ \A l \in 1..(k - 1) :
              FracGreater(calculatePathSimilarity(brokenPath, matches[k]),
                          calculatePathSimilarity(brokenPath, matches[l]))

\* findByBasename
findByBasename(cache, brokenPath) ==
    LET matches == basenameMatches(cache, ToLower(getBasename(brokenPath, TRUE)))
    IN  IF Len(matches) = 1
        THEN [confidence |-> "medium",
              suggestedPath |-> matches[1],
              reason |-> "File with same name found in different location",
              redirectEntry |-> Undefined]
        ELSE IF Len(matches) > 1
                /\ FracGreater(calculatePathSimilarity(brokenPath,
                                                       matches[bestScored(brokenPath, matches)]),
                               <<1, 2>>)
        THEN [confidence |-> "medium",
              suggestedPath |-> matches[bestScored(brokenPath, matches)],
              reason |-> "Similar file found (" \o ToString(Len(matches))
                         \o " candidates, best match selected)",
              redirectEntry |-> Undefined]
        ELSE NoSuggestion

\* The threshold Math.min(10, Math.floor(brokenPath.length * 0.3)).
SimilarityCap == 10

maxDistance(brokenPath) == Min(SimilarityCap, (3 * Len(brokenPath)) \div 10)

\* The distances with the case kept.
similarityDistancesCaseKept(cache, brokenPath) ==
    [k \in 1..Len(cache) |-> levenshtein(brokenPath, cache[k])]

\* The distances of the indexed files to the broken path, in cache order.
similarityDistances(cache, brokenPath) ==
    [k \in 1..Len(cache) |-> levenshtein(ToLower(brokenPath), ToLower(cache[k]))]

\* The distance a suggestion is still made at, and the one up to which it
\* is of medium confidence.
SuggestDistance == 5

MediumDistance == 2

\* findBySimilarity with the first candidate taken in place of the nearest.
findBySimilarityFirstCandidate(cache, brokenPath) ==
    LET dist == similarityDistances(cache, brokenPath)
        candidates == {k \in 1..Len(cache) : dist[k] <= maxDistance(brokenPath)}
    IN  IF candidates = {} THEN NoSuggestion
        ELSE LET best == CHOOSE k \in candidates : \A l \in candidates : k <= l
             IN  IF dist[best] <= SuggestDistance
                 THEN [confidence |-> IF dist[best] <= MediumDistance THEN "medium" ELSE "low",
                       suggestedPath |-> cache[best],
                       reason |-> "Similar path found (edit distance: "
                                  \o ToString(dist[best]) \o ")",
                       redirectEntry |-> Undefined]
                 ELSE NoSuggestion

\* findBySimilarity: candidates.sort((a, b) => a.distance - b.distance)[0] is
\* the first file of the least distance among those within maxDistance.
findBySimilarity(cache, brokenPath) ==
    LET dist == similarityDistances(cache, brokenPath)
        candidates == {k \in 1..Len(cache) : dist[k] <= maxDistance(brokenPath)}
    IN  IF candidates = {} THEN NoSuggestion
        ELSE LET best == CHOOSE k \in candidates :
                            \A l \in candidates : dist[k] < dist[l] \/ (dist[k] = dist[l] /\ k <= l)
             IN  IF dist[best] <= SuggestDistance
                 THEN [confidence |-> IF dist[best] <= MediumDistance THEN "medium" ELSE "low",
                       suggestedPath |-> cache[best],
                       reason |-> "Similar path found (edit distance: "
                                  \o ToString(dist[best]) \o ")",
                       redirectEntry |-> Undefined]
                 ELSE NoSuggestion

\* findByCaseVariation: allFilesCache.find(f => f.toLowerCase() === lowerBroken)
findByCaseVariation(cache, brokenPath) ==
    LET hits == {k \in 1..Len(cache) : ToLower(cache[k]) = ToLower(brokenPath)}
    IN  IF hits = {} THEN NoSuggestion
        ELSE LET match == cache[CHOOSE k \in hits : \A l \in hits : k <= l]
             IN  IF match # "" /\ match # brokenPath
                 THEN [confidence |-> "low",
                       suggestedPath |-> match,
                       reason |-> "Case variation of path exists",
                       redirectEntry |-> Undefined]
                 ELSE NoSuggestion

neighborPaths ==
    <<[relative |-> "./", description |-> "current directory"],
      [relative |-> "../", description |-> "parent directory"],
      [relative |-> "../../", description |-> "grandparent directory"]>>

\* findNeighborReadme: README.md of the source directory, its parent and its
\* grandparent, for a link that looks like a directory.
RECURSIVE neighborFrom(_, _, _, _)
neighborFrom(fs, sourceDir, linkTarget, k) ==
    IF k > Len(neighborPaths) THEN NoSuggestion
    ELSE LET resolvedTarget ==
                normalizePath(PathJoin(PathJoin(sourceDir, neighborPaths[k].relative), "README.md"))
             suggestedLink == neighborPaths[k].relative \o "README.md"
         IN  IF /\ fileExists(fs, joinPaths(ProjectRoot, resolvedTarget))
                /\ suggestedLink # linkTarget
                /\ suggestedLink # linkTarget \o "README.md"
             THEN [confidence |-> "low",
                   suggestedPath |-> resolvedTarget,
                   reason |-> "README.md found in " \o neighborPaths[k].description,
                   redirectEntry |-> Undefined]
             ELSE neighborFrom(fs, sourceDir, linkTarget, k + 1)

findNeighborReadme(fs, broken) ==
    LET linkTarget == broken.link.target
        isDirectoryLink == \/ EndsWith(linkTarget, "/")
                           \/ (StartsWith(linkTarget, ".") /\ ~Includes(linkTarget, ".md"))
    IN  IF ~isDirectoryLink THEN NoSuggestion
        ELSE neighborFrom(fs, getDirectory(broken.sourceFile), linkTarget, 1)

\* broken.resolvedPath || broken.link.target
brokenPathOf(broken) ==
    IF Truthy(broken.resolvedPath) THEN broken.resolvedPath ELSE broken.link.target

\* if (suggestion): a FixSuggestion object, as against undefined.
IsSuggestion(s) == s.confidence # "none"

\* The first of the suggestions that is one.
RECURSIVE firstSuggestion(_)
firstSuggestion(candidates) ==
    IF Len(candidates) = 0 THEN NoSuggestion
    ELSE IF IsSuggestion(candidates[1]) THEN candidates[1]
    ELSE firstSuggestion(Tail(candidates))

\* A plausible slip: the basename strategy is asked before the redirects.
findFixSuggestionBasenameFirst(fs, entries, cache, broken) ==
    firstSuggestion(<<findByBasename(cache, brokenPathOf(broken)),
                      findRedirectSuggestion(fs, entries, brokenPathOf(broken)),
                      findBySimilarity(cache, brokenPathOf(broken)),
                      findByCaseVariation(cache, brokenPathOf(broken)),
                      findNeighborReadme(fs, broken)>>)

\* findFixSuggestion: redirect, basename, similarity, case variation and
\* neighbour README, each asked only when those before it gave nothing.
findFixSuggestion(fs, entries, cache, broken) ==
    LET brokenPath == brokenPathOf(broken)
        redirectSuggestion == findRedirectSuggestion(fs, entries, brokenPath)
        basenameSuggestion == findByBasename(cache, brokenPath)
        levenshteinSuggestion == findBySimilarity(cache, brokenPath)
        caseSuggestion == findByCaseVariation(cache, brokenPath)
        neighborSuggestion == findNeighborReadme(fs, broken)
    IN  IF IsSuggestion(redirectSuggestion) THEN redirectSuggestion
        ELSE IF IsSuggestion(basenameSuggestion) THEN basenameSuggestion
        ELSE IF IsSuggestion(levenshteinSuggestion) THEN levenshteinSuggestion
        ELSE IF IsSuggestion(caseSuggestion) THEN caseSuggestion
        ELSE IF IsSuggestion(neighborSuggestion) THEN neighborSuggestion
        ELSE NoSuggestion

(***************************************************************************)
(* shared/path-utils.ts: toRelativeLink                                    *)
(***************************************************************************)
\* if (!relative.startsWith('.') && !relative.startsWith('/')) relative = './' + relative
dotRelative(relative) ==
    IF ~StartsWith(relative, ".") /\ ~StartsWith(relative, "/")
    THEN "./" \o relative
    ELSE relative

toRelativeLink(sourceFile, targetPath) ==
    dotRelative(ReplaceChar(PathRelative(PathDirname(sourceFile), targetPath), "\\", "/"))

(***************************************************************************)
(* link-checker/fixers/link-fixer.ts                                       *)
(***************************************************************************)
\* buildLinkReplacementPattern: escapeRegex makes the target and the anchor
\* literal text, so the pattern is "](", an optional "<", that text, an
\* optional ">" and ")".  The text is kept in place of the RegExp.
buildLinkReplacementPattern(link) ==
    link.target \o (IF Truthy(link.anchor) THEN "#" \o link.anchor ELSE "")

\* The length of the match of the pattern at position i of line, 0 when it
\* does not match there; the optional brackets are taken when they can be.
matchLengthAt(line, pattern, i) ==
    LET tries == <<"](<" \o pattern \o ">)", "](<" \o pattern \o ")",
                   "](" \o pattern \o ">)", "](" \o pattern \o ")">>
        hits == {k \in 1..4 : OccursAt(line, tries[k], i)}
    IN  IF hits = {} THEN 0
        ELSE Len(tries[CHOOSE k \in hits : \A l \in hits : k <= l])

\* GetSubstitution of String.prototype.replace for a pattern without
\* groups: in the replacement text "$$" stands for "$", "$&" for the match,
\* "$" and a grave accent for the text before it and "$'" for the text after it.
RECURSIVE getSubstitution(_, _, _, _, _)
getSubstitution(replacement, k, line, i, n) ==
    IF k > Len(replacement) THEN ""
    ELSE LET c == CharAt(replacement, k)
             d == CharAt(replacement, k + 1)
         IN  IF c = "$" /\ d = "$"
             THEN "$" \o getSubstitution(replacement, k + 2, line, i, n)
             ELSE IF c = "$" /\ d = "&"
             THEN SubSeq(line, i, i + n - 1) \o getSubstitution(replacement, k + 2, line, i, n)
             ELSE IF c = "$" /\ d = Backtick
             THEN SubSeq(line, 1, i - 1) \o getSubstitution(replacement, k + 2, line, i, n)
             ELSE IF c = "$" /\ d = "'"
             THEN From(line, i + n) \o getSubstitution(replacement, k + 2, line, i, n)
             ELSE c \o getSubstitution(replacement, k + 1, line, i, n)

\* line.replace(pattern, replacement) with the global flag, from position i.
RECURSIVE replaceFrom(_, _, _, _)
replaceFrom(line, pattern, replacement, i) ==
    IF i > Len(line) THEN ""
    ELSE LET n == matchLengthAt(line, pattern, i)
         IN  IF n > 0
             THEN getSubstitution(replacement, 1, line, i, n)
                    \o replaceFrom(line, pattern, replacement, i + n)
             ELSE CharAt(line, i) \o replaceFrom(line, pattern, replacement, i + 1)

\* replaceLink: Undefined stands for null.
\* newLine !== line ? newLine : null
changedOrNull(newLine, line) == IF newLine # line THEN newLine ELSE Undefined

replaceLink(line, link, newTarget) ==
    changedOrNull(replaceFrom(line, buildLinkReplacementPattern(link),
                              "](" \o newTarget \o ")", 1),
                  line)

\* The link text a fix writes: the relative path to the suggested file and
\* the anchor of the broken link.
withAnchorOf(link, newRelativePath) ==
    IF Truthy(link.anchor) THEN newRelativePath \o "#" \o link.anchor ELSE newRelativePath

newTargetOf(broken, suggestion) ==
    withAnchorOf(broken.link, toRelativeLink(broken.sourceFile, suggestion.suggestedPath))

FixResult(broken, suggestion, success, error) ==
    [sourceFile |-> broken.sourceFile,
     originalLink |-> broken.link,
     newPath |-> suggestion.suggestedPath,
     success |-> success,
     error |-> error,
     redirectAdded |-> FALSE]

\* The message of the exception readFile or writeFile throws.
IOError(op, filePath) == "EACCES: permission denied, " \o op \o " '" \o filePath \o "'"

\* One fix on the lines of its file: the lines after it and its FixResult.
\* mismatch is the error text of a link that is not found on the line.
fixedLine(lines, fix, updatedLine, mismatch) ==
    IF ~Truthy(updatedLine)
    THEN [lines |-> lines,
          result |-> FixResult(fix.broken, fix.suggestion, FALSE, mismatch)]
    ELSE [lines |-> [lines EXCEPT ![fix.broken.link.line] = updatedLine],
          result |-> FixResult(fix.broken, fix.suggestion, TRUE, Undefined)]

fixLine(lines, fix, mismatch) ==
    IF fix.broken.link.line - 1 < 0 \/ fix.broken.link.line - 1 >= Len(lines)
    THEN [lines |-> lines,
          result |-> FixResult(fix.broken, fix.suggestion, FALSE,
                               "Line " \o ToString(fix.broken.link.line)
                                   \o " not found in file")]
    ELSE fixedLine(lines, fix,
                   replaceLink(lines[fix.broken.link.line], fix.broken.link,
                               newTargetOf(fix.broken, fix.suggestion)),
                   mismatch)

\* applyFix(broken, suggestion, projectRoot): what is returned and what the
\* file holds afterwards; every exception is caught and reported.
fixWritten(fileLines, unwritableFiles, fix, fixed, readLog, openError) ==
    IF ~fixed.result.success
    THEN [contents |-> fileLines, result |-> fixed.result, log |-> readLog]
    ELSE IF fix.broken.sourceFile \in unwritableFiles
    THEN [contents |-> fileLines,
          result |-> FixResult(fix.broken, fix.suggestion, FALSE, openError),
          log |-> Append(readLog, [op |-> "write", file |-> fix.broken.sourceFile, ok |-> FALSE])]
    ELSE [contents |-> [fileLines EXCEPT ![fix.broken.sourceFile] = fixed.lines],
          result |-> fixed.result,
          log |-> Append(readLog, [op |-> "write", file |-> fix.broken.sourceFile, ok |-> TRUE])]

fixRead(fileLines, unreadableFiles, unwritableFiles, fix, openError) ==
    IF fix.broken.sourceFile \in unreadableFiles
    THEN [contents |-> fileLines,
          result |-> FixResult(fix.broken, fix.suggestion, FALSE, openError),
          log |-> <<[op |-> "read", file |-> fix.broken.sourceFile, ok |-> FALSE]>>]
    ELSE fixWritten(fileLines, unwritableFiles, fix,
                    fixLine(fileLines[fix.broken.sourceFile], fix,
                            "Could not find link to replace on line "
                                \o ToString(fix.broken.link.line)),
                    <<[op |-> "read", file |-> fix.broken.sourceFile, ok |-> TRUE]>>,
                    openError)

applyFix(fileLines, unreadableFiles, unwritableFiles, fix) ==
    fixRead(fileLines, unreadableFiles, unwritableFiles, fix,
            IOError("open", joinPaths(ProjectRoot, fix.broken.sourceFile)))

\* The keys of fixesByFile in insertion order: each source file at the place
\* of its first fix.
RECURSIVE fixedFiles(_, _)
fixedFiles(fixes, seen) ==
    IF Len(fixes) = 0 THEN <<>>
    ELSE IF fixes[1].broken.sourceFile \in seen THEN fixedFiles(Tail(fixes), seen)
    ELSE <<fixes[1].broken.sourceFile>>
            \o fixedFiles(Tail(fixes), seen \cup {fixes[1].broken.sourceFile})

\* fixesByFile.get(sourceFile): the fixes of the file in batch order.
RECURSIVE fixesOfFile(_, _)
fixesOfFile(fixes, sourceFile) ==
    IF Len(fixes) = 0 THEN <<>>
    ELSE (IF fixes[1].broken.sourceFile = sourceFile THEN <<fixes[1]>> ELSE <<>>)
            \o fixesOfFile(Tail(fixes), sourceFile)

\* fileFixes.sort((a, b) => b.broken.link.line - a.broken.link.line): by
\* descending line; the sort is stable.
RECURSIVE insertByLine(_, _)
insertByLine(sorted, fix) ==
    IF Len(sorted) = 0 THEN <<fix>>
    ELSE IF sorted[1].broken.link.line >= fix.broken.link.line
    THEN <<sorted[1]>> \o insertByLine(Tail(sorted), fix)
    ELSE <<fix>> \o sorted

\* A plausible slip: the fixes of a file kept in batch order.
sortByLineUnsorted(fileFixes, sorted) == sorted \o fileFixes

RECURSIVE sortByLineDescending(_, _)
sortByLineDescending(fileFixes, sorted) ==
    IF Len(fileFixes) = 0 THEN sorted
    ELSE sortByLineDescending(Tail(fileFixes), insertByLine(sorted, fileFixes[1]))

\* The inner loop of applyFixes over the sorted fixes of one file.
RECURSIVE fixLines(_, _, _)
RECURSIVE fixLinesAfter(_, _, _)
fixLinesAfter(fixed, fileFixes, results) ==
    fixLines(fixed.lines, Tail(fileFixes), Append(results, fixed.result))

fixLines(lines, fileFixes, results) ==
    IF Len(fileFixes) = 0 THEN [lines |-> lines, results |-> results]
    ELSE fixLinesAfter(fixLine(lines, fileFixes[1], "Could not find link to replace"),
                       fileFixes, results)

\* The outer loop of applyFixes from the k-th file on.  readFile and
\* writeFile are called outside any try block: when one of them throws, the
\* exception leaves applyFixes, no result is returned and the files not yet
\* written stay as they are.
RECURSIVE applyFixesFrom(_, _, _, _, _, _, _, _)
RECURSIVE fileWritten(_, _, _, _, _, _, _, _, _, _)
fileWritten(fixes, sourceFiles, k, fileLines, unreadableFiles, unwritableFiles, results, log, fixed, openError) ==
    IF sourceFiles[k] \in unwritableFiles
    THEN [contents |-> fileLines, results |-> <<>>, thrown |-> openError,
          log |-> log \o <<[op |-> "read", file |-> sourceFiles[k], ok |-> TRUE],
                           [op |-> "write", file |-> sourceFiles[k], ok |-> FALSE]>>]
    ELSE applyFixesFrom(fixes, sourceFiles, k + 1,
                        [fileLines EXCEPT ![sourceFiles[k]] = fixed.lines],
                        unreadableFiles, unwritableFiles,
                        results \o fixed.results,
                        log \o <<[op |-> "read", file |-> sourceFiles[k], ok |-> TRUE],
                                 [op |-> "write", file |-> sourceFiles[k], ok |-> TRUE]>>)

fileRead(fixes, sourceFiles, k, fileLines, unreadableFiles, unwritableFiles, results, log, openError) ==
    IF sourceFiles[k] \in unreadableFiles
    THEN [contents |-> fileLines, results |-> <<>>, thrown |-> openError,
          log |-> Append(log, [op |-> "read", file |-> sourceFiles[k], ok |-> FALSE])]
    ELSE fileWritten(fixes, sourceFiles, k, fileLines, unreadableFiles, unwritableFiles,
                     results, log,
                     fixLines(fileLines[sourceFiles[k]],
                              sortByLineDescending(fixesOfFile(fixes, sourceFiles[k]), <<>>),
                              <<>>),
                     openError)

applyFixesFrom(fixes, sourceFiles, k, fileLines, unreadableFiles, unwritableFiles, results, log) ==
    IF k > Len(sourceFiles)
    THEN [contents |-> fileLines, results |-> results, thrown |-> Undefined, log |-> log]
    ELSE fileRead(fixes, sourceFiles, k, fileLines, unreadableFiles, unwritableFiles,
                  results, log, IOError("open", joinPaths(ProjectRoot, sourceFiles[k])))

\* applyFixes(fixes, projectRoot)
applyFixes(fileLines, unreadableFiles, unwritableFiles, fixes) ==
    applyFixesFrom(fixes, fixedFiles(fixes, {}), 1, fileLines,
                   unreadableFiles, unwritableFiles, <<>>, <<>>)

(***************************************************************************)
(* shared/gitbook-yaml.ts: addRedirects                                    *)
(***************************************************************************)
\* The characters \s matches among those the model's lines are made of.
Whitespace == {" ", "\t", "\n", "\r", "\f"}

\* s.trim()
RECURSIVE TrimStart(_)
TrimStart(s) == IF Len(s) > 0 /\ CharAt(s, 1) \in Whitespace THEN TrimStart(From(s, 2)) ELSE s

RECURSIVE TrimEnd(_)
TrimEnd(s) ==
    IF Len(s) > 0 /\ CharAt(s, Len(s)) \in Whitespace THEN TrimEnd(SubSeq(s, 1, Len(s) - 1))
    ELSE s

Trim(s) == TrimEnd(TrimStart(s))

\* line.match(/^\s{2}\S/)
IsEntryLine(line) ==
    /\ Len(line) >= 3
    /\ CharAt(line, 1) \in Whitespace
    /\ CharAt(line, 2) \in Whitespace
    /\ CharAt(line, 3) \notin Whitespace

\* line.match(/^\S/) && line.trim()
IsTopLevelLine(line) == Len(line) >= 1 /\ CharAt(line, 1) \notin Whitespace /\ Trim(line) # ""

\* The scan of addRedirects from line i (0-based, as in the code): the
\* index of the "redirects:" line and that of the last entry line after it,
\* -1 for none; the scan stops at the first top-level line after the block
\* has begun.
RECURSIVE scanRedirects(_, _, _, _)
scanRedirects(lines, i, redirectsLineIndex, lastRedirectIndex) ==
    IF i >= Len(lines)
    THEN [redirectsLineIndex |-> redirectsLineIndex, lastRedirectIndex |-> lastRedirectIndex]
    ELSE LET line == lines[i + 1]
             rIndex == IF Trim(line) = "redirects:" THEN i ELSE redirectsLineIndex
         IN  IF rIndex # -1 /\ i > rIndex
             THEN IF IsEntryLine(line) THEN scanRedirects(lines, i + 1, rIndex, i)
                  ELSE IF IsTopLevelLine(line)
                  THEN [redirectsLineIndex |-> rIndex, lastRedirectIndex |-> lastRedirectIndex]
                  ELSE scanRedirects(lines, i + 1, rIndex, lastRedirectIndex)
             ELSE scanRedirects(lines, i + 1, rIndex, lastRedirectIndex)

\* redirects.map(r => "  " + r.from + ": " + r.to)
newRedirectLines(redirects) ==
    [k \in 1..Len(redirects) |-> "  " \o redirects[k].from \o ": " \o redirects[k].to]

\* lines.splice(at, 0, ...added) with a 0-based index.
Splice(lines, at, added) == SubSeq(lines, 1, at) \o added \o SubSeq(lines, at + 1, Len(lines))

\* A plausible slip: the new lines put at the head of the block.
addRedirectsAtBlockStart(lines, redirects) ==
    LET found == scanRedirects(lines, 0, -1, -1)
    IN  IF found.redirectsLineIndex = -1
        THEN lines \o <<"", "redirects:">> \o newRedirectLines(redirects)
        ELSE Splice(lines, found.redirectsLineIndex + 1, newRedirectLines(redirects))

\* addRedirects(yamlPath, redirects) on the lines of the file, for a
\* non-empty list: the lines written back.
addRedirects(lines, redirects) ==
    LET found == scanRedirects(lines, 0, -1, -1)
    IN  IF found.redirectsLineIndex = -1
        THEN lines \o <<"", "redirects:">> \o newRedirectLines(redirects)
        ELSE IF found.lastRedirectIndex # -1
        THEN Splice(lines, found.lastRedirectIndex + 1, newRedirectLines(redirects))
        ELSE Splice(lines, found.redirectsLineIndex + 1, newRedirectLines(redirects))

\* line.match(/^\s{2}([^:]+):\s*(.+)$/): the key is what lies between the
\* two leading blanks and the first colon, the value what follows the colon.
redirectLineMatch(line) ==
    LET colon == IndexOf(From(line, 3), ":")
    IN  IF /\ Len(line) >= 2
           /\ CharAt(line, 1) \in Whitespace
           /\ CharAt(line, 2) \in Whitespace
           /\ colon >= 2
           /\ Len(line) >= colon + 3
        THEN [matched |-> TRUE,
              from |-> Trim(SubSeq(line, 3, colon + 1)),
              to |-> Trim(From(line, colon + 3))]
        ELSE [matched |-> FALSE, from |-> "", to |-> ""]

\* parseGitBookYaml(yamlPath) on the lines of the file: the entries of the
\* redirects blocks, each with its 1-based line.
RECURSIVE parseGitBookYamlFrom(_, _, _, _)
parseGitBookYamlFrom(lines, i, inRedirects, entries) ==
    IF i > Len(lines) THEN entries
    ELSE IF Trim(lines[i]) = "redirects:" THEN parseGitBookYamlFrom(lines, i + 1, TRUE, entries)
    ELSE IF ~inRedirects THEN parseGitBookYamlFrom(lines, i + 1, FALSE, entries)
    ELSE IF Len(lines[i]) >= 1 /\ CharAt(lines[i], 1) \notin Whitespace
    THEN parseGitBookYamlFrom(lines, i + 1, FALSE, entries)
    ELSE IF redirectLineMatch(lines[i]).matched
    THEN parseGitBookYamlFrom(lines, i + 1, TRUE,
                              Append(entries, [from |-> redirectLineMatch(lines[i]).from,
                                               to |-> redirectLineMatch(lines[i]).to,
                                               line |-> i]))
    ELSE parseGitBookYamlFrom(lines, i + 1, TRUE, entries)

parseGitBookYaml(lines) == parseGitBookYamlFrom(lines, 1, FALSE, <<>>)

(***************************************************************************)
(* link-fixer.ts: redirects for the fixes                                  *)
(***************************************************************************)
\* generateRedirectEntries: acc holds the entries pushed so far.
RECURSIVE generateRedirectEntriesFrom(_, _)
generateRedirectEntriesFrom(results, acc) ==
    IF Len(results) = 0 THEN acc
    ELSE LET result == results[1]
             from == StripMdSuffix(StripDotSlash(result.originalLink.target))
             to == result.newPath
         IN  IF ~result.success \/ Includes(from, "..")
                \/ \E k \in 1..Len(acc) : acc[k].from = from /\ acc[k].to = to
             THEN generateRedirectEntriesFrom(Tail(results), acc)
             ELSE generateRedirectEntriesFrom(Tail(results),
                                              Append(acc, [from |-> from, to |-> to]))

\* A plausible slip: an entry for every successful result, repeated pairs
\* included.
generateRedirectEntriesRepeated(fixResults) ==
    LET kept == SelectSeq(fixResults,
                          LAMBDA r : r.success
                                     /\ ~Includes(StripMdSuffix(StripDotSlash(r.originalLink.target)),
                                                  ".."))
    IN  [k \in 1..Len(kept) |->
            [from |-> StripMdSuffix(StripDotSlash(kept[k].originalLink.target)),
             to |-> kept[k].newPath]]

generateRedirectEntries(fixResults) == generateRedirectEntriesFrom(fixResults, <<>>)

\* The path of the redirect configuration, relative to the project root.
GitbookYaml == ".gitbook.yaml"

\* applyFixesWithRedirects: applyFixes, then, with the flag on and entries
\* to add, addRedirects on the configuration and redirectAdded = true on the
\* successful results.  An exception of applyFixes or of addRedirects
\* leaves the call.
redirectAdded(results) ==
    [k \in 1..Len(results) |->
        IF results[k].success THEN [results[k] EXCEPT !.redirectAdded = TRUE] ELSE results[k]]

redirectsApplied(fixed, redirects, yamlLines, unreadableFiles, unwritableFiles, openError) ==
    IF Len(redirects) = 0
    THEN [contents |-> fixed.contents, yaml |-> yamlLines, results |-> fixed.results,
          redirectsAdded |-> 0, thrown |-> Undefined, log |-> fixed.log]
    ELSE IF GitbookYaml \in unreadableFiles
    THEN [contents |-> fixed.contents, yaml |-> yamlLines, results |-> <<>>,
          redirectsAdded |-> 0, thrown |-> openError,
          log |-> Append(fixed.log, [op |-> "read", file |-> GitbookYaml, ok |-> FALSE])]
    ELSE IF GitbookYaml \in unwritableFiles
    THEN [contents |-> fixed.contents, yaml |-> yamlLines, results |-> <<>>,
          redirectsAdded |-> 0, thrown |-> openError,
          log |-> fixed.log \o <<[op |-> "read", file |-> GitbookYaml, ok |-> TRUE],
                                 [op |-> "write", file |-> GitbookYaml, ok |-> FALSE]>>]
    ELSE [contents |-> fixed.contents,
          yaml |-> addRedirects(yamlLines, redirects),
          results |-> redirectAdded(fixed.results),
          redirectsAdded |-> Len(redirects),
          thrown |-> Undefined,
          log |-> fixed.log \o <<[op |-> "read", file |-> GitbookYaml, ok |-> TRUE],
                                 [op |-> "write", file |-> GitbookYaml, ok |-> TRUE]>>]

fixesApplied(fixed, yamlLines, unreadableFiles, unwritableFiles, addRedirectsFlag) ==
    IF Truthy(fixed.thrown)
    THEN [contents |-> fixed.contents, yaml |-> yamlLines, results |-> <<>>,
          redirectsAdded |-> 0, thrown |-> fixed.thrown, log |-> fixed.log]
    ELSE IF ~addRedirectsFlag
    THEN [contents |-> fixed.contents, yaml |-> yamlLines, results |-> fixed.results,
          redirectsAdded |-> 0, thrown |-> Undefined, log |-> fixed.log]
    ELSE redirectsApplied(fixed, generateRedirectEntries(fixed.results), yamlLines,
                          unreadableFiles, unwritableFiles,
                          IOError("open", joinPaths(ProjectRoot, GitbookYaml)))

applyFixesWithRedirects(fileLines, yamlLines, unreadableFiles, unwritableFiles, fixes, addRedirectsFlag) ==
    fixesApplied(applyFixes(fileLines, unreadableFiles, unwritableFiles, fixes),
                 yamlLines, unreadableFiles, unwritableFiles, addRedirectsFlag)

(***************************************************************************)
(* shared/reporter.ts and link-checker/index.ts: fix mode                  *)
(***************************************************************************)
\* A plausible slip: everything but a plain "n" is taken for a yes.
askConfirmationUnlessNo(answer) == ToLower(answer) # "n"

\* askConfirmation resolves to whether the answer is y or yes in any case.
askConfirmation(answer) == ToLower(answer) = "y" \/ ToLower(answer) = "yes"

\* brokenLinkDetails.filter(d => d.suggestion)
RECURSIVE withSuggestion(_)
withSuggestion(details) ==
    IF Len(details) = 0 THEN <<>>
    ELSE (IF IsSuggestion(details[1].suggestion) THEN <<details[1]>> ELSE <<>>)
            \o withSuggestion(Tail(details))

\* The items of a confidence, in order; "none" is that of no suggestion.
RECURSIVE groupOf(_, _)
groupOf(items, confidence) ==
    IF Len(items) = 0 THEN <<>>
    ELSE (IF items[1].suggestion.confidence = confidence THEN <<items[1]>> ELSE <<>>)
            \o groupOf(Tail(items), confidence)

\* groupByConfidence(suggestions)
groupByConfidence(items) ==
    [high |-> groupOf(items, "high"),
     medium |-> groupOf(items, "medium"),
     low |-> groupOf(items, "low"),
     none |-> groupOf(items, "none")]

(***************************************************************************)
(* shared/path-utils.ts: cleanLinkPath                                     *)
(***************************************************************************)
\* s.replace(/pattern/g, replacement) for a literal pattern.
RECURSIVE ReplaceAll(_, _, _)
ReplaceAll(s, pattern, replacement) ==
    LET at == IndexOf(s, pattern)
    IN  IF at = 0 THEN s
        ELSE SubSeq(s, 1, at - 1) \o replacement
                \o ReplaceAll(From(s, at + Len(pattern)), pattern, replacement)

HexDigits == "0123456789abcdef"

IsHexDigit(c) == Len(c) = 1 /\ IndexOf(HexDigits, LowerChar(c)) # 0

HexValue(c) == IndexOf(HexDigits, LowerChar(c)) - 1

\* The characters of the codes 32 to 126, in the order of their codes.
PrintableAscii ==
    " !\"#$%&'()*+,-./0123456789:;<=>?@ABCDEFGHIJKLMNOPQRSTUVWXYZ[\\]^_"
        \o Backtick \o "abcdefghijklmnopqrstuvwxyz{|}~"

\* The character a %XX escape stands for; strings here are made of the
\* printable ASCII characters, tab, line feed and carriage return.
EscapedChar(code) ==
    IF code \in 32..126 THEN CharAt(PrintableAscii, code - 31)
    ELSE IF code = 9 THEN "\t"
    ELSE IF code = 10 THEN "\n"
    ELSE IF code = 13 THEN "\r"
    ELSE Undefined

EscapeCodeAt(s, i) == 16 * HexValue(CharAt(s, i + 1)) + HexValue(CharAt(s, i + 2))

\* Whether every % of s starts an escape of one of those characters.
RECURSIVE DecodableFrom(_, _)
DecodableFrom(s, i) ==
    IF i > Len(s) THEN TRUE
    ELSE IF CharAt(s, i) # "%" THEN DecodableFrom(s, i + 1)
    ELSE /\ i + 2 <= Len(s)
         /\ IsHexDigit(CharAt(s, i + 1))
         /\ IsHexDigit(CharAt(s, i + 2))
         /\ EscapedChar(EscapeCodeAt(s, i)) # Undefined
         /\ DecodableFrom(s, i + 3)

RECURSIVE DecodeFrom(_, _)
DecodeFrom(s, i) ==
    IF i > Len(s) THEN ""
    ELSE IF CharAt(s, i) # "%" THEN CharAt(s, i) \o DecodeFrom(s, i + 1)
    ELSE EscapedChar(EscapeCodeAt(s, i)) \o DecodeFrom(s, i + 3)

\* decodeLink: decodeURIComponent(link), and link itself when that throws.
\* An escape of a character beyond the strings of this model leaves the
\* link as written.
decodeLink(link) == IF DecodableFrom(link, 1) THEN DecodeFrom(link, 1) ELSE link

cleanLinkPath(link) ==
    ReplaceAll(ReplaceAll(ReplaceAll(decodeLink(link), "\\_", "_"), "\\#", "#"), "\\ ", " ")

(***************************************************************************)
(* link-checker/parsers/markdown.ts: links and headings of a document      *)
(***************************************************************************)
BacktickFence == Backtick \o Backtick \o Backtick

TildeFence == "~~~"

\* /^(three grave accents)|^~~~/.test(line.trim())
IsFence(line) == StartsWith(Trim(line), BacktickFence) \/ StartsWith(Trim(line), TildeFence)

\* A variant that knows the backtick fence only.
RECURSIVE computeCodeBlockStateBackticksOnly(_)
computeCodeBlockStateBackticksOnly(lines) ==
    IF Len(lines) = 0 THEN <<>>
    ELSE LET before == computeCodeBlockStateBackticksOnly(SubSeq(lines, 1, Len(lines) - 1))
             inBlock == Len(before) > 0 /\ before[Len(before)]
         IN  Append(before, IF StartsWith(Trim(lines[Len(lines)]), BacktickFence)
                            THEN ~inBlock ELSE inBlock)

\* computeCodeBlockState: for each line, inBlock after the line has toggled it.
RECURSIVE computeCodeBlockState(_)
computeCodeBlockState(lines) ==
    IF Len(lines) = 0 THEN <<>>
    ELSE LET before == computeCodeBlockState(SubSeq(lines, 1, Len(lines) - 1))
             inBlock == Len(before) > 0 /\ before[Len(before)]
         IN  Append(before, IF IsFence(lines[Len(lines)]) THEN ~inBlock ELSE inBlock)

\* The first position from i on whose character is not in (is in) the set;
\* Len(s) + 1 when there is none.
RECURSIVE SkipIn(_, _, _)
SkipIn(s, i, set) ==
    IF i <= Len(s) /\ CharAt(s, i) \in set THEN SkipIn(s, i + 1, set) ELSE i

RECURSIVE SkipNotIn(_, _, _)
SkipNotIn(s, i, set) ==
    IF i <= Len(s) /\ CharAt(s, i) \notin set THEN SkipNotIn(s, i + 1, set) ELSE i

NoMatch == [length |-> 0, groups |-> <<>>]

\* /\[([^\]]*)\]\(<([^>]+)>\)/ matched at position i.
angleBracketLinkAt(line, i) ==
    LET close == SkipNotIn(line, i + 1, {"]"})
        gt == SkipNotIn(line, close + 3, {">"})
    IN  IF /\ CharAt(line, i) = "["
           /\ OccursAt(line, "](<", close)
           /\ gt > close + 3
           /\ OccursAt(line, ">)", gt)
        THEN [length |-> gt + 2 - i,
              groups |-> <<SubSeq(line, i + 1, close - 1), SubSeq(line, close + 3, gt - 1)>>]
        ELSE NoMatch

\* The characters [^()<>\s] excludes.
NotInTarget == {"(", ")", "<", ">"} \cup Whitespace

\* /\[([^\]]*)\]\(([^()<>\s]+(?:\([^()]*\))?[^()<>\s]*)\)/ matched at position i:
\* a run of target characters, then either the closing parenthesis, or one
\* parenthesised group, a second run and the closing parenthesis.
standardLinkAt(line, i) ==
    LET close == SkipNotIn(line, i + 1, {"]"})
        start == close + 2
        run1 == SkipNotIn(line, start, NotInTarget)
        inner == SkipNotIn(line, run1 + 1, {"(", ")"})
        run2 == SkipNotIn(line, inner + 1, NotInTarget)
        text == SubSeq(line, i + 1, close - 1)
    IN  IF CharAt(line, i) # "[" \/ ~OccursAt(line, "](", close) \/ run1 = start THEN NoMatch
        ELSE IF OccursAt(line, ")", run1)
        THEN [length |-> run1 + 1 - i, groups |-> <<text, SubSeq(line, start, run1 - 1)>>]
        ELSE IF OccursAt(line, "(", run1) /\ OccursAt(line, ")", inner)
                /\ OccursAt(line, ")", run2)
        THEN [length |-> run2 + 1 - i, groups |-> <<text, SubSeq(line, start, run2 - 1)>>]
        ELSE NoMatch

Quotes == {"\"", "'"}

\* Whether s holds word at position i, whatever the case of the letters.
OccursAtIgnoringCase(s, word, i) ==
    i >= 1 /\ i + Len(word) - 1 <= Len(s) /\ ToLower(SubSeq(s, i, i + Len(word) - 1)) = word

\* Whether a quoted, non-empty value starts at the quote position q; the
\* position of its closing quote.
ValueEnd(line, q) == SkipNotIn(line, q + 1, Quotes)

IsQuotedValue(line, q) ==
    /\ q <= Len(line)
    /\ CharAt(line, q) \in Quotes
    /\ ValueEnd(line, q) > q + 1
    /\ ValueEnd(line, q) <= Len(line)

\* /<a\s+[^>]*href=["']([^"']+)["'][^>]*>/gi matched at position i: [^>]* is
\* greedy, so of the href= the tag can be matched with the last one is taken.
htmlLinkAt(line, i) ==
    LET hrefs == {h \in (i + 3)..Len(line) :
                     /\ OccursAtIgnoringCase(line, "href=", h)
                     /\ SkipNotIn(line, i + 3, {">"}) >= h
                     /\ IsQuotedValue(line, h + 5)
                     /\ SkipNotIn(line, ValueEnd(line, h + 5) + 1, {">"}) <= Len(line)}
        href == CHOOSE h \in hrefs : \A other \in hrefs : other <= h
    IN  IF /\ OccursAtIgnoringCase(line, "<a", i)
           /\ i + 2 <= Len(line)
           /\ CharAt(line, i + 2) \in Whitespace
           /\ hrefs # {}
        THEN [length |-> SkipNotIn(line, ValueEnd(line, href + 5) + 1, {">"}) + 1 - i,
              groups |-> <<"", SubSeq(line, href + 6, ValueEnd(line, href + 5) - 1)>>]
        ELSE NoMatch

\* /data-ref=["']([^"']+)["']/gi matched at position i.
dataRefAt(line, i) ==
    IF OccursAtIgnoringCase(line, "data-ref=", i) /\ IsQuotedValue(line, i + 9)
    THEN [length |-> ValueEnd(line, i + 9) + 1 - i,
          groups |-> <<"", SubSeq(line, i + 10, ValueEnd(line, i + 9) - 1)>>]
    ELSE NoMatch

LinkRegexes == <<"angleBracketLinkRegex", "standardLinkRegex", "htmlLinkRegex", "dataRefRegex">>

matchAt(regex, line, i) ==
    CASE regex = "angleBracketLinkRegex" -> angleBracketLinkAt(line, i)
      [] regex = "standardLinkRegex" -> standardLinkAt(line, i)
      [] regex = "htmlLinkRegex" -> htmlLinkAt(line, i)
      [] regex = "dataRefRegex" -> dataRefAt(line, i)

\* while ((match = regex.exec(line)) !== null): the links of the matches of a
\* regex in a line, from position i on; an external target gives no link.
RECURSIVE linksOfRegex(_, _, _, _)
linksOfRegex(regex, line, lineNumber, i) ==
    IF i > Len(line) THEN <<>>
    ELSE LET m == matchAt(regex, line, i)
             cleanTarget == cleanLinkPath(Trim(m.groups[2]))
         IN  IF m.length = 0 THEN linksOfRegex(regex, line, lineNumber, i + 1)
             ELSE (IF isExternalLink(cleanTarget) THEN <<>>
                   ELSE <<createParsedLink(SubSeq(line, i, i + m.length - 1), m.groups[1],
                                           cleanTarget, lineNumber, i)>>)
                     \o linksOfRegex(regex, line, lineNumber, i + m.length)

linksOfLine(line, lineNumber) ==
    linksOfRegex(LinkRegexes[1], line, lineNumber, 1)
        \o linksOfRegex(LinkRegexes[2], line, lineNumber, 1)
        \o linksOfRegex(LinkRegexes[3], line, lineNumber, 1)
        \o linksOfRegex(LinkRegexes[4], line, lineNumber, 1)

RECURSIVE linksFrom(_, _, _)
linksFrom(lines, codeBlockState, lineNumber) ==
    IF lineNumber > Len(lines) THEN <<>>
    ELSE (IF codeBlockState[lineNumber] THEN <<>> ELSE linksOfLine(lines[lineNumber], lineNumber))
            \o linksFrom(lines, codeBlockState, lineNumber + 1)

\* parseMarkdownLinks(filePath, content), content being the lines joined.
parseMarkdownLinks(filePath, lines) ==
    [filePath |-> filePath, links |-> linksFrom(lines, computeCodeBlockState(lines), 1)]

\* The characters the . of a regular expression does not match.
LineTerminators == {"\n", "\r"}

NoHeading == [level |-> 0, rawText |-> ""]

\* /^(#{1,6})\s+(.+)$/ on a line: \s+ gives back its last character when
\* nothing follows the white space.
atxHeading(line) ==
    LET hashes == SkipIn(line, 1, {"#"}) - 1
        afterSpace == SkipIn(line, hashes + 1, Whitespace)
        rawText == IF afterSpace <= Len(line) THEN From(line, afterSpace)
                   ELSE IF afterSpace > hashes + 2 THEN CharAt(line, Len(line))
                   ELSE ""
    IN  IF /\ hashes \in 1..6
           /\ afterSpace > hashes + 1
           /\ rawText # ""
           /\ SkipNotIn(rawText, 1, LineTerminators) > Len(rawText)
        THEN [level |-> hashes, rawText |-> rawText]
        ELSE NoHeading

\* generateAnchorId's .replace(/[^\w\s-]/g, '')
WordChars ==
    {CharAt(LowerLetters, k) : k \in 1..Len(LowerLetters)}
        \cup {CharAt(UpperLetters, k) : k \in 1..Len(UpperLetters)}
        \cup {"0", "1", "2", "3", "4", "5", "6", "7", "8", "9", "_"}

RECURSIVE KeepChars(_, _)
KeepChars(s, set) ==
    IF Len(s) = 0 THEN ""
    ELSE (IF CharAt(s, 1) \in set THEN CharAt(s, 1) ELSE "") \o KeepChars(From(s, 2), set)

\* .replace(/c+/g, '-') for the characters c of a set.
RECURSIVE RunsToHyphen(_, _)
RunsToHyphen(s, set) ==
    IF Len(s) = 0 THEN ""
    ELSE IF CharAt(s, 1) \in set THEN "-" \o RunsToHyphen(From(s, SkipIn(s, 1, set)), set)
    ELSE CharAt(s, 1) \o RunsToHyphen(From(s, 2), set)

\* .replace(/^-|-$/g, ''): a hyphen at the start and one at the end.
StripEndHyphens(s) ==
    IF s = "-" THEN ""
    ELSE SubSeq(s, IF StartsWith(s, "-") THEN 2 ELSE 1,
                   IF EndsWith(s, "-") THEN Len(s) - 1 ELSE Len(s))

\* A variant without the last replacement.
generateAnchorIdUntrimmed(text) ==
    RunsToHyphen(RunsToHyphen(KeepChars(ToLower(text), WordChars \cup Whitespace \cup {"-"}),
                              Whitespace), {"-"})

generateAnchorId(text) ==
    StripEndHyphens(
        RunsToHyphen(RunsToHyphen(KeepChars(ToLower(text), WordChars \cup Whitespace \cup {"-"}),
                                  Whitespace), {"-"}))

\* suggestAnchorForText of the anchor validator.
suggestAnchorForText(headingText) == generateAnchorId(headingText)

\* /\{#([^}]+)\}\s*$/ on a trimmed text: the position of the {# of the match,
\* 0 when there is none.
RECURSIVE LastBraceBefore(_, _)
LastBraceBefore(text, i) ==
    IF i < 1 THEN 0 ELSE IF CharAt(text, i) = "}" THEN i ELSE LastBraceBefore(text, i - 1)

customAnchorAt(text) ==
    LET end == Len(TrimEnd(text))
        open == IndexFrom(text, "{#", LastBraceBefore(text, end - 1) + 1)
    IN  IF end >= 1 /\ CharAt(text, end) = "}" /\ open # 0 /\ open + 2 <= end - 1
        THEN open ELSE 0

headingOfLine(line, lineNumber) ==
    LET match == atxHeading(line)
        text == Trim(match.rawText)
        custom == customAnchorAt(text)
    IN  IF match.level = 0 THEN <<>>
        ELSE IF custom # 0
        THEN <<[text |-> Trim(SubSeq(text, 1, custom - 1)),
                id |-> SubSeq(text, custom + 2, Len(TrimEnd(text)) - 1),
                level |-> match.level, line |-> lineNumber]>>
        ELSE <<[text |-> text, id |-> generateAnchorId(text),
                level |-> match.level, line |-> lineNumber]>>

RECURSIVE headingsFrom(_, _, _)
headingsFrom(lines, codeBlockState, lineNumber) ==
    IF lineNumber > Len(lines) THEN <<>>
    ELSE (IF codeBlockState[lineNumber] THEN <<>>
          ELSE headingOfLine(lines[lineNumber], lineNumber))
            \o headingsFrom(lines, codeBlockState, lineNumber + 1)

\* parseMarkdownHeadings(filePath, content), content being the lines joined.
parseMarkdownHeadings(filePath, lines) ==
    [filePath |-> filePath,
     headings |-> headingsFrom(lines, computeCodeBlockState(lines), 1)]

(***************************************************************************)
(* link-checker/validators/anchor-validator.ts                             *)
(***************************************************************************)
\* headingsCache is kept as the list of the FileHeadings set, in insertion
\* order; a file is set at most once.  headingsCache.has(filePath)
RECURSIVE headingsCacheHas(_, _)
headingsCacheHas(cache, filePath) ==
    IF Len(cache) = 0 THEN FALSE
    ELSE cache[1].filePath = filePath \/ headingsCacheHas(Tail(cache), filePath)

\* headingsCache.get(filePath) of a file the cache has.
RECURSIVE headingsCacheGet(_, _)
headingsCacheGet(cache, filePath) ==
    IF cache[1].filePath = filePath THEN cache[1]
    ELSE headingsCacheGet(Tail(cache), filePath)

\* getFileHeadings without the memo: the file is read and parsed at every call.
getFileHeadingsUncached(fs, fileLines, cache, filePath) ==
    IF ~fileExists(fs, joinPaths(ProjectRoot, filePath))
    THEN [found |-> FALSE, headings |-> <<>>, cache |-> cache]
    ELSE [found |-> TRUE,
          headings |-> parseMarkdownHeadings(filePath, fileLines[filePath]).headings,
          cache |-> IF headingsCacheHas(cache, filePath) THEN cache
                    ELSE Append(cache, parseMarkdownHeadings(filePath, fileLines[filePath]))]

\* getFileHeadings(filePath, projectRoot): found is FALSE for null; cache is
\* headingsCache after the call.
getFileHeadings(fs, fileLines, cache, filePath) ==
    IF ~fileExists(fs, joinPaths(ProjectRoot, filePath))
    THEN [found |-> FALSE, headings |-> <<>>, cache |-> cache]
    ELSE IF headingsCacheHas(cache, filePath)
    THEN [found |-> TRUE, headings |-> headingsCacheGet(cache, filePath).headings,
          cache |-> cache]
    ELSE [found |-> TRUE,
          headings |-> parseMarkdownHeadings(filePath, fileLines[filePath]).headings,
          cache |-> Append(cache, parseMarkdownHeadings(filePath, fileLines[filePath]))]

\* 1 - distance / maxLen of two lower-case strings as the fraction
\* <<maxLen - distance, maxLen>>.
similarityOf(aLower, bLower, maxLen) ==
    IF maxLen = 0 THEN <<1, 1>>
    ELSE <<maxLen - levenshtein(aLower, bLower), maxLen>>

\* calculateSimilarity(a, b)
calculateSimilarity(a, b) ==
    similarityOf(ToLower(a), ToLower(b), Max(Len(ToLower(a)), Len(ToLower(b))))

\* score > 0.5
AboveHalf(score) == 2 * score[1] > score[2]

\* The loop of findSimilarAnchors: the headings scoring above 0.5, in file
\* order.
RECURSIVE similarAnchors(_, _)
similarAnchors(targetAnchor, headings) ==
    IF Len(headings) = 0 THEN <<>>
    ELSE (IF AboveHalf(calculateSimilarity(targetAnchor, headings[1].id))
          THEN <<[id |-> headings[1].id,
                  score |-> calculateSimilarity(targetAnchor, headings[1].id)]>>
          ELSE <<>>)
            \o similarAnchors(targetAnchor, Tail(headings))

\* sort((a, b) => b.score - a.score): by descending score; the sort is
\* stable.
RECURSIVE insertByScore(_, _)
insertByScore(sorted, s) ==
    IF Len(sorted) = 0 THEN <<s>>
    ELSE IF FracGreater(s.score, sorted[1].score) THEN <<s>> \o sorted
    ELSE <<sorted[1]>> \o insertByScore(Tail(sorted), s)

RECURSIVE sortByScoreDescending(_, _)
sortByScoreDescending(scored, sorted) ==
    IF Len(scored) = 0 THEN sorted
    ELSE sortByScoreDescending(Tail(scored), insertByScore(sorted, scored[1]))

\* The most suggestions findSimilarAnchors returns: slice(0, 3).
MaxAnchorSuggestions == 3

\* slice(0, 3).map(s => s.id)
topIds(sorted) ==
    [i \in 1..Min(Len(sorted), MaxAnchorSuggestions) |-> sorted[i].id]

\* findSimilarAnchors without the sort: the first three headings above 0.5 in
\* file order.
findSimilarAnchorsUnsorted(targetAnchor, headings) ==
    topIds(similarAnchors(targetAnchor, headings))

\* findSimilarAnchors(targetAnchor, headings)
findSimilarAnchors(targetAnchor, headings) ==
    topIds(sortByScoreDescending(similarAnchors(targetAnchor, headings), <<>>))

\* validateAnchor's result; an empty suggestions list stands for undefined,
\* which is what the code returns instead of an empty array.
AnchorResult(valid, error, similar) ==
    [valid |-> valid, error |-> error, suggestions |-> similar]

\* headings.find(h => h.id === normalizedAnchor) gives a heading.
hasExactMatch(headings, normalizedAnchor) ==
    \E i \in 1..Len(headings) : headings[i].id = normalizedAnchor

\* headings.find(h => h.id.toLowerCase() === normalizedAnchor) gives a
\* heading.
hasCaseInsensitiveMatch(headings, normalizedAnchor) ==
    \E i \in 1..Len(headings) : ToLower(headings[i].id) = normalizedAnchor

\* validateAnchor after getFileHeadings.
anchorChecked(got, targetFile, anchor, normalizedAnchor) ==
    IF ~got.found
    THEN AnchorResult(FALSE, "Target file not found: " \o targetFile, <<>>)
    ELSE IF hasExactMatch(got.headings, normalizedAnchor)
    THEN AnchorResult(TRUE, Undefined, <<>>)
    ELSE IF hasCaseInsensitiveMatch(got.headings, normalizedAnchor)
    THEN AnchorResult(TRUE, Undefined, <<>>)
    ELSE AnchorResult(FALSE, "Anchor not found: #" \o anchor \o " in " \o targetFile,
                      findSimilarAnchors(normalizedAnchor, got.headings))

\* validateAnchor(targetFile, anchor, projectRoot)
validateAnchor(fs, fileLines, cache, targetFile, anchor) ==
    anchorChecked(getFileHeadings(fs, fileLines, cache, targetFile),
                  targetFile, anchor, ToLower(anchor))

(***************************************************************************)
(* summary-checker: parseSummary and flattenSummary                        *)
(***************************************************************************)
NoEntryMatch == [matched |-> FALSE, indent |-> "", title |-> "", rawPath |-> ""]

\* entryRegex, /^(\s*)[\*\-]\s+\[([^\]]+)\]\(([^)]+)\)/, on a line.
entryRegexExec(line) ==
    LET bullet == SkipIn(line, 1, Whitespace)
        open == SkipIn(line, bullet + 1, Whitespace)
        close == SkipNotIn(line, open + 1, {"]"})
        last == SkipNotIn(line, close + 2, {")"})
    IN  IF /\ bullet <= Len(line)
           /\ CharAt(line, bullet) \in {"*", "-"}
           /\ open > bullet + 1
           /\ open <= Len(line)
           /\ CharAt(line, open) = "["
           /\ close > open + 1
           /\ close < Len(line)
           /\ CharAt(line, close + 1) = "("
           /\ last > close + 2
           /\ last <= Len(line)
        THEN [matched |-> TRUE,
              indent |-> SubSeq(line, 1, bullet - 1),
              title |-> SubSeq(line, open + 1, close - 1),
              rawPath |-> SubSeq(line, close + 2, last - 1)]
        ELSE NoEntryMatch

\* The SummaryEntry of a matched line.
summaryEntry(match, lineNumber) ==
    [title |-> Trim(match.title),
     path |-> cleanLinkPath(Trim(match.rawPath)),
     line |-> lineNumber,
     depth |-> Len(match.indent) \div 2,
     children |-> <<>>]

\* An entry of the forest is referred to by the indices that lead to it:
\* <<2, 1>> is entries[1].children[0] of the code's entries[1].
RECURSIVE entryAt(_, _)
entryAt(entries, ref) ==
    IF Len(ref) = 1 THEN entries[ref[1]]
    ELSE entryAt(entries[ref[1]].children, Tail(ref))

\* parent.children.push(entry) for the entry referred to by ref, and
\* entries.push(entry) for the empty ref.
RECURSIVE pushedTo(_, _, _)
pushedTo(entries, ref, entry) ==
    IF Len(ref) = 0 THEN Append(entries, entry)
    ELSE [entries EXCEPT ![ref[1]].children = pushedTo(@, Tail(ref), entry)]

\* The reference of the entry just pushed below ref.
pushedRef(entries, ref) ==
    IF Len(ref) = 0 THEN <<Len(entries) + 1>>
    ELSE Append(ref, Len(entryAt(entries, ref).children) + 1)

\* A plausible slip: only the entries deeper than the new one are popped.
RECURSIVE poppedWhileDeeper(_, _, _)
poppedWhileDeeper(entries, parentStack, depth) ==
    IF Len(parentStack) > 0 /\ entryAt(entries, parentStack[Len(parentStack)]).depth > depth
    THEN poppedWhileDeeper(entries, SubSeq(parentStack, 1, Len(parentStack) - 1), depth)
    ELSE parentStack

\* while (parentStack.length > 0 && top.depth >= depth) parentStack.pop()
RECURSIVE poppedTo(_, _, _)
poppedTo(entries, parentStack, depth) ==
    IF Len(parentStack) > 0 /\ entryAt(entries, parentStack[Len(parentStack)]).depth >= depth
    THEN poppedTo(entries, SubSeq(parentStack, 1, Len(parentStack) - 1), depth)
    ELSE parentStack

\* The top of the stack, the empty reference when the stack is empty.
stackTop(parentStack) ==
    IF Len(parentStack) > 0 THEN parentStack[Len(parentStack)] ELSE <<>>

\* The stack after the pops an entry of the depth makes: none for depth 0,
\* where the stack is emptied.
stackFor(entries, parentStack, depth) ==
    IF depth = 0 THEN <<>> ELSE poppedTo(entries, parentStack, depth)

\* The loop of parseSummary from line lineIndex (0-based) on.
RECURSIVE parseSummaryFrom(_, _, _, _, _)
parseSummaryFrom(lines, lineIndex, entries, allPaths, parentStack) ==
    IF lineIndex >= Len(lines)
    THEN [parsed |-> TRUE, entries |-> entries, allPaths |-> allPaths]
    ELSE LET match == entryRegexExec(lines[lineIndex + 1])
             entry == summaryEntry(match, lineIndex + 1)
             stack == stackFor(entries, parentStack, entry.depth)
         IN  IF ~match.matched
             THEN parseSummaryFrom(lines, lineIndex + 1, entries, allPaths, parentStack)
             ELSE parseSummaryFrom(lines, lineIndex + 1,
                                   pushedTo(entries, stackTop(stack), entry),
                                   Append(allPaths, entry.path),
                                   Append(stack, pushedRef(entries, stackTop(stack))))

\* parseSummary(summaryPath) on the lines of the file.
parseSummary(lines) == parseSummaryFrom(lines, 0, <<>>, <<>>, <<>>)

\* flattenSummary(structure): every entry, then its children.
RECURSIVE flatten(_)
flatten(entries) ==
    IF Len(entries) = 0 THEN <<>>
    ELSE <<entries[1]>> \o flatten(entries[1].children) \o flatten(Tail(entries))

flattenSummary(summary) == flatten(summary.entries)

(***************************************************************************)
(* redirects/validator.ts and the path tests it calls                      *)
(***************************************************************************)
\* s.replace(/\.html$/, '')
StripHtmlSuffix(s) == IF EndsWith(s, ".html") THEN SubSeq(s, 1, Len(s) - 5) ELSE s

\* s.replace(/\/$/, '')
StripOneTrailingSlash(s) == IF EndsWith(s, "/") THEN SubSeq(s, 1, Len(s) - 1) ELSE s

\* s.replace(/\.html$/, '.md').replace(/\/index\.md$/, '/README.md')
sourcePathOf(cleanPath) ==
    LET md == IF EndsWith(cleanPath, ".html") THEN StripHtmlSuffix(cleanPath) \o ".md"
              ELSE cleanPath
    IN  IF EndsWith(md, "/index.md") THEN SubSeq(md, 1, Len(md) - 9) \o "/README.md" ELSE md

\* The entry parseRedirectsWithRaw makes of a line "  rawFrom: rawTo".
parsedRedirect(rawFrom, rawTo) ==
    LET html == IF EndsWith(rawTo, ".md") THEN StripMdSuffix(rawTo) \o ".html" ELSE rawTo
        to == "/" \o html
    IN  [from |-> "/" \o rawFrom,
         to |-> IF EndsWith(to, "/README.html") THEN SubSeq(to, 1, Len(to) - 11) ELSE to,
         rawFrom |-> rawFrom,
         rawTo |-> rawTo]

\* The book directory when no bookDir is passed.
BookDir == "_book"

\* The tree with the files of the book directory in it.
treeWithBook(fs, built) == fs \cup {BookDir \o "/" \o f : f \in built}

\* targetPathExists(urlPath, projectRoot) on a tree whose book directory
\* holds the files built; the directory exists when it holds a file.
targetPathExists(fs, built, urlPath) ==
    LET cleanPath == StripLeadingSlash(urlPath)
        pathWithoutTrailingSlash == StripOneTrailingSlash(cleanPath)
        tree == treeWithBook(fs, built)
        bookDirPath == joinPaths(ProjectRoot, BookDir)
        directoryLike == EndsWith(cleanPath, "/") \/ ~Includes(cleanPath, ".")
    IN  \/ /\ built # {}
           /\ \/ fileExists(tree, joinPaths(bookDirPath, cleanPath))
              \/ /\ directoryLike
                 /\ \/ fileExists(tree, joinPaths(joinPaths(bookDirPath, cleanPath), "index.html"))
                    \/ fileExists(tree, joinPaths(bookDirPath, pathWithoutTrailingSlash \o ".html"))
        \/ fileExists(tree, joinPaths(ProjectRoot, sourcePathOf(cleanPath)))
        \/ /\ directoryLike
           /\ \/ fileExists(tree, joinPaths(joinPaths(ProjectRoot, cleanPath), "README.md"))
              \/ fileExists(tree, joinPaths(ProjectRoot, pathWithoutTrailingSlash \o ".md"))

\* hasRedirectConflict(fromPath, toPath, projectRoot)
hasRedirectConflict(fs, built, fromPath, toPath) ==
    LET fromClean == StripHtmlSuffix(StripLeadingSlash(fromPath))
        toClean == StripHtmlSuffix(StripLeadingSlash(toPath))
    IN  IF toClean = fromClean \/ toClean = fromClean \o "/README"
           \/ toClean = fromClean \o "/index"
        THEN FALSE
        ELSE fileExists(treeWithBook(fs, built), joinPaths(ProjectRoot, fromClean \o ".md"))

\* The issue pushed for an entry.
redirectIssue(entry, reason) ==
    [from |-> entry.from, to |-> entry.to, rawFrom |-> entry.rawFrom, rawTo |-> entry.rawTo,
     reason |-> reason]

\* checkRedirects(redirects, projectRoot): the loop from entry k on, then
\* the counts.
RECURSIVE checkRedirectsFrom(_, _, _, _, _, _)
checkRedirectsFrom(fs, built, redirects, k, skipped, broken) ==
    IF k > Len(redirects)
    THEN [checked |-> TRUE,
          total |-> Len(redirects),
          valid |-> Len(redirects) - Len(skipped) - Len(broken),
          skipped |-> skipped,
          broken |-> broken]
    ELSE checkRedirectsFrom(fs, built, redirects, k + 1,
            IF hasRedirectConflict(fs, built, redirects[k].from, redirects[k].to)
            THEN Append(skipped, redirectIssue(redirects[k],
                                               "source path exists as different content"))
            ELSE skipped,
            IF ~targetPathExists(fs, built, redirects[k].to)
            THEN Append(broken, redirectIssue(redirects[k], "target does not exist"))
            ELSE broken)

checkRedirects(fs, built, redirects) == checkRedirectsFrom(fs, built, redirects, 1, <<>>, <<>>)

(***************************************************************************)
(* State                                                                   *)
(***************************************************************************)
VARIABLES
    files,            \* the regular files of the project tree, project-relative
    redirectEntries,  \* RedirectMap.entries parsed from .gitbook.yaml
    checked,          \* the FileLinks last validated and whether the table was passed
    validation,       \* validateAllLinks' ValidationResult list
    brokenLinks,      \* getBrokenLinks(validation)
    listing,          \* the order in which glob lists the files of the tree
    allFilesCache,    \* redirect-finder's module-level allFilesCache
    suggestions,      \* findAllFixSuggestions' result, in insertion order
    contents,         \* the lines (content.split('\n')) of each source file
    unreadable,       \* the source files readFile throws on
    unwritable,       \* the source files writeFile throws on
    contentsBefore,   \* contents as they were when the fixer was called
    fixCall,          \* the call made to the fixer: the operation and its fixes
    fixResults,       \* the FixResults that call returned
    fixThrown,        \* the message of the exception that left the call
    ioLog,            \* the readFile and writeFile calls of the fixer, in order
    gitbookYaml,      \* the lines of .gitbook.yaml
    redirectsAdded,   \* redirectsAdded as applyFixesWithRedirects returned it
    fixMode,          \* handleFixMode: how far it is, its options and its input
    pending,          \* the suggestions still to be asked about
    answered,         \* the suggestions asked about, each with the answer typed
    fixesToApply,     \* handleFixMode's fixesToApply
    document,         \* the lines of the Markdown document being parsed
    fileLinks,        \* parseMarkdownLinks' FileLinks of the document
    fileHeadings,     \* parseMarkdownHeadings' FileHeadings of the document
    headingText,      \* the text an anchor id is generated for
    anchorId,         \* the anchor id generated
    headingsCache,    \* anchor-validator's module-level headingsCache
    anchorCall,       \* the last validateAnchor call: targetFile and anchor
    anchorResult,     \* what that call returned
    headingsGot,      \* the last getFileHeadings call: its path and what it returned
    bookDir,          \* what the directory _book holds
    tempBookDir,      \* what the directory _book_temp holds
    state,            \* the dev server's DevServerState
    honkit,           \* the Honkit child process
    exited,           \* whether process.exit was called
    cleanupRuns,      \* how often the body of the cleanup handler ran
    signalled,        \* a SIGINT or SIGTERM has been delivered to the process
    run,              \* applyFixesWithRedirects in progress: its position and locals
    trace,            \* the reads, fixes, writes and appends of that call, in order
    yamlBefore,       \* .gitbook.yaml as it was when the call began
    appended,         \* the redirects handed to addRedirects
    summaryLines,     \* the lines of SUMMARY.md
    structure,        \* parseSummary's SummaryStructure of those lines
    flattened,        \* flattenSummary of that structure
    redirectsChecked, \* the ParsedRedirectEntry list checkRedirects was given
    builtFiles,       \* the files of the _book directory, relative to it
    checkResult       \* checkRedirects' RedirectCheckResult

vars == <<files, redirectEntries, checked, validation, brokenLinks,
          listing, allFilesCache, suggestions,
          contents, unreadable, unwritable, contentsBefore,
          fixCall, fixResults, fixThrown, ioLog,
          gitbookYaml, redirectsAdded, fixMode, pending, answered, fixesToApply,
          document, fileLinks, fileHeadings, headingText, anchorId,
          headingsCache, anchorCall, anchorResult, headingsGot,
          bookDir, tempBookDir, state, honkit, exited, cleanupRuns, signalled,
          run, trace, yamlBefore, appended,
          summaryLines, structure, flattened, redirectsChecked, builtFiles, checkResult>>

envVars == <<files, redirectEntries, listing>>

validatorVars == <<checked, validation, brokenLinks>>

suggestVars == <<allFilesCache, suggestions>>

diskVars == <<contents, unreadable, unwritable, gitbookYaml>>

fixerVars == <<contentsBefore, fixCall, fixResults, fixThrown, ioLog, redirectsAdded>>

fixModeVars == <<fixMode, pending, answered, fixesToApply>>

parserVars == <<document, fileLinks, fileHeadings, headingText, anchorId>>

anchorVars == <<headingsCache, anchorCall, anchorResult, headingsGot>>

serverVars == <<bookDir, tempBookDir, state, honkit, exited, cleanupRuns, signalled>>

batchVars == <<run, trace, yamlBefore, appended>>

summaryVars == <<summaryLines, structure, flattened>>

checkerVars == <<redirectsChecked, builtFiles, checkResult>>

(***************************************************************************)
(* Bounds and universes of the validator runs                              *)
(***************************************************************************)
\* The most entries the redirects block of .gitbook.yaml holds.
MaxRedirects == 2

\* Files every tree holds: the Markdown sources the links are read from.
SourceFiles == {"docs/a.md", "index.md"}

\* Files a tree may or may not hold.
OptionalFiles ==
    {"docs/missing.md", "docs/a/found.md", "docs/b.md", "docs/b/README.md", "docs/img.png"}

\* The from: to lines a redirects block is made of.
RedirectLines ==
    {<<"a/missing", "a/found.md">>, <<"docs/missing", "docs/a/found.md">>,
     <<"docs/missing.md", "docs/a/found.md">>, <<"docs/missing.md", "a/found.md">>}

\* The entries of a redirects block of n lines; line 1 is "redirects:".
RedirectTables(pairs, n) ==
    {[i \in 1..n |-> [from |-> f[i][1], to |-> f[i][2], line |-> i + 1]] :
        f \in [1..n -> pairs]}

\* A parsed document: the links of its lines, one link per line, kept as
\* createParsedLink classifies them.
Document(filePath, targets) ==
    [filePath |-> filePath,
     links |-> [i \in 1..Len(targets) |->
                  createParsedLink("[x](" \o targets[i] \o ")", "x", targets[i], i, 1)]]

Documents ==
    {Document("docs/a.md", <<"missing.md">>),
     Document("docs/a.md", <<"b", "missing.md#sec">>),
     Document("docs/a.md", <<"/docs/missing.md", "#top">>),
     Document("docs/a.md", <<"a/found.md", "./b/", "img.png">>),
     Document("index.md", <<"docs/missing", "./docs/a/found.md">>),
     Document("index.md", <<"docs/img.png", "/a/missing.md">>)}

(***************************************************************************)
(* The validator run: index.ts validates every parsed link and keeps the   *)
(* broken ones                                                             *)
(***************************************************************************)
ValidatorIdle ==
    /\ checked = [filePath |-> "", links |-> <<>>, withMap |-> FALSE]
    /\ validation = <<>>
    /\ brokenLinks = <<>>

\* No source file is held for rewriting.
NoDisk ==
    /\ contents = <<>>
    /\ unreadable = {}
    /\ unwritable = {}
    /\ gitbookYaml = <<>>

FixerIdle ==
    /\ contentsBefore = <<>>
    /\ fixCall = [op |-> "", fixes |-> <<>>]
    /\ fixResults = <<>>
    /\ fixThrown = Undefined
    /\ ioLog = <<>>
    /\ redirectsAdded = 0

FixModeIdle ==
    /\ fixMode = [phase |-> "idle", autoFix |-> FALSE, interactive |-> FALSE,
                  addRedirects |-> FALSE, details |-> <<>>]
    /\ pending = <<>>
    /\ answered = <<>>
    /\ fixesToApply = <<>>

\* Before a document is parsed there are no FileLinks and no FileHeadings;
\* they are written as those of no file.
NothingParsed ==
    /\ fileLinks = [filePath |-> Undefined, links |-> <<>>]
    /\ fileHeadings = [filePath |-> Undefined, headings |-> <<>>]
    /\ anchorId = Undefined

ParserIdle ==
    /\ document = <<>>
    /\ headingText = ""
    /\ NothingParsed

\* getFileHeadings has not been called.
NoHeadingsGot == [filePath |-> "", found |-> FALSE, headings |-> <<>>]

AnchorIdle ==
    /\ headingsCache = <<>>
    /\ anchorCall = [targetFile |-> "", anchor |-> ""]
    /\ anchorResult = AnchorResult(FALSE, Undefined, <<>>)
    /\ headingsGot = NoHeadingsGot

\* The DevServerState runDevServer builds; staticServer and proxyServer are
\* "none", "listening" or "closed".
DevServerState(hasCachedBuild) ==
    [hasCachedBuild |-> hasCachedBuild, isLiveMode |-> FALSE, watchersSetup |-> FALSE,
     isCleaningUp |-> FALSE, staticServer |-> "none", proxyServer |-> "none",
     backend |-> "static"]

\* The Honkit child: not spawned, running, failed to spawn or exited; whether
\* kill was called on it; and the events it has emitted that index.ts has
\* not handled yet.
NoHonkit ==
    [status |-> "none", killed |-> FALSE, successPending |-> FALSE, exitPending |-> FALSE,
     errorPending |-> FALSE]

ServerIdle ==
    /\ bookDir = "absent"
    /\ tempBookDir = "absent"
    /\ state = DevServerState(FALSE)
    /\ honkit = NoHonkit
    /\ exited = FALSE
    /\ cleanupRuns = 0
    /\ signalled = FALSE

\* No applyFixesWithRedirects call is in progress.
NoRun ==
    [pc |-> "idle", addRedirectsFlag |-> FALSE, sourceFiles |-> <<>>, k |-> 0,
     lines |-> <<>>, fileFixes |-> <<>>, results |-> <<>>, redirects |-> <<>>]

BatchIdle ==
    /\ run = NoRun
    /\ trace = <<>>
    /\ yamlBefore = <<>>
    /\ appended = <<>>

\* No SUMMARY.md has been parsed.
NoStructure == [parsed |-> FALSE, entries |-> <<>>, allPaths |-> <<>>]

SummaryIdle ==
    /\ summaryLines = <<>>
    /\ structure = NoStructure
    /\ flattened = <<>>

\* checkRedirects has not been called.
NoCheck == [checked |-> FALSE, total |-> 0, valid |-> 0, skipped |-> <<>>, broken |-> <<>>]

CheckerIdle ==
    /\ redirectsChecked = <<>>
    /\ builtFiles = {}
    /\ checkResult = NoCheck

\* allFilesCache = null
NullCache == [loaded |-> FALSE, paths |-> <<>>]

SuggestIdle ==
    /\ allFilesCache = NullCache
    /\ suggestions = <<>>

Init ==
    /\ \E opt \in SUBSET OptionalFiles : files = SourceFiles \cup opt
    /\ \E n \in 0..MaxRedirects :
          redirectEntries \in RedirectTables(RedirectLines, n)
    /\ listing = <<>>
    /\ ValidatorIdle
    /\ SuggestIdle
    /\ NoDisk
    /\ FixerIdle
    /\ FixModeIdle
    /\ ParserIdle
    /\ AnchorIdle
    /\ ServerIdle
    /\ BatchIdle
    /\ SummaryIdle
    /\ CheckerIdle

\* validateAllLinks over one document's links, then getBrokenLinks.
CheckLinks(doc, withMap) ==
    /\ ValidatorIdle
    /\ checked' = [filePath |-> doc.filePath, links |-> doc.links, withMap |-> withMap]
    /\ validation' = validateFileLinks(files, redirectEntries, withMap, doc)
    /\ brokenLinks' = getBrokenLinks(validation')
    /\ UNCHANGED <<envVars, summaryVars, checkerVars, anchorVars, serverVars, batchVars, parserVars, suggestVars, diskVars, fixerVars, fixModeVars>>

Next == \E doc \in Documents, withMap \in BOOLEAN : CheckLinks(doc, withMap)

Spec == Init /\ [][Next]_vars

(***************************************************************************)
(* Claims about the validator                                              *)
(***************************************************************************)
\* The file a target names, read as the claims read it: relative to the
\* directory of the source file, or to the project root when it starts
\* with "/".
NamedFile(sourceFile, target) ==
    IF StartsWith(target, "/") THEN PathNormalize(From(target, 2))
    ELSE PathJoin(PathDirname(sourceFile), target)

\* The keys a redirect lookup of path tries, in order.
LookupKeys(path) ==
    <<path, StripLeadingSlash(path), StripMdSuffix(path), StripMdSuffix(StripLeadingSlash(path))>>

\* The destination the table gives path: that of the first lookup key the
\* table has (the last entry of that key), Undefined when it has none.
LookupDestination(entries, path) ==
    LET keys == LookupKeys(path)
        hits == {k \in 1..4 : \E i \in 1..Len(entries) : entries[i].from = keys[k]}
    IN  IF hits = {} THEN Undefined
        ELSE LET k == CHOOSE h \in hits : \A g \in hits : h <= g
                 i == CHOOSE j \in 1..Len(entries) :
                        /\ entries[j].from = keys[k]
                        /\ \A l \in (j + 1)..Len(entries) : entries[l].from # keys[k]
             IN  entries[i].to

PathLink(link) == link.type \in {"internal", "asset"}

\* C2: an internal or asset link whose target names an existing file is
\* reported valid, with or without a redirect table; never broken and never
\* redirect-available.
C2_ExistingTargetIsValid ==
    \A i \in 1..Len(validation) :
        LET r == validation[i]
        IN  (PathLink(r.link) /\ r.link.target # ""
             /\ NamedFile(r.sourceFile, r.link.target) \in files)
            => r.status = "valid"

\* C2 witness: a relative and a root-relative target that name existing
\* files were validated with the redirect table passed and holding a key
\* for the very path.
C2_Witness ==
    /\ checked.withMap
    /\ \E i \in 1..Len(validation) :
          /\ validation[i].link.target = "/docs/missing.md"
          /\ "docs/missing.md" \in files
          /\ validation[i].status = "valid"
          /\ LookupDestination(redirectEntries, "docs/missing.md") = "docs/a/found.md"
          /\ "docs/a/found.md" \in files
    /\ \E i \in 1..Len(validation) :
          validation[i].link.type = "anchor-only" /\ validation[i].status = "valid"

\* C3: a path link whose resolved target does not exist is redirect-available
\* exactly when the table was passed and its lookup of the resolved path gives
\* a destination that exists; otherwise it is broken, with an error that
\* names the resolved path.  getBrokenLinks keeps the broken results only.
C3_MissingTargetStatus ==
    /\ \A i \in 1..Len(validation) :
          LET r == validation[i]
              dest == LookupDestination(redirectEntries, r.resolvedPath)
              redirected == /\ checked.withMap
                            /\ Truthy(dest)
                            /\ PathNormalize(dest) \in files
          IN  (PathLink(r.link) /\ r.resolvedPath \notin files)
              => /\ redirected => r.status = "redirect-available"
                 /\ ~redirected =>
                        /\ r.status = "broken"
                        /\ Truthy(r.error)
                        /\ EndsWith(r.error, r.resolvedPath)
                        /\ r.resolvedPath =
                              StripTrailingSlashes(NamedFile(r.sourceFile, r.link.target))
    /\ \A j \in 1..Len(brokenLinks) :
          brokenLinks[j].status = "broken" /\ Truthy(brokenLinks[j].error)
    /\ Len(brokenLinks) = Cardinality({i \in 1..Len(validation) : validation[i].status = "broken"})

\* C3 witness: one run gave a redirect-available and a broken result, the
\* broken one with a resolved path that differs from the raw target, and
\* getBrokenLinks returned only the broken one.
C3_Witness ==
    /\ \E i \in 1..Len(validation) : validation[i].status = "redirect-available"
    /\ \E i \in 1..Len(validation) :
          /\ validation[i].status = "broken"
          /\ validation[i].resolvedPath # validation[i].link.target
    /\ Len(brokenLinks) >= 1
    /\ Len(brokenLinks) < Len(validation)

\* The run of the example: [x](missing.md) in docs/a.md, docs/missing.md
\* absent, docs/a/found.md present, the redirect table passed.
C4_Example ==
    /\ checked.filePath = "docs/a.md"
    /\ Len(checked.links) = 1
    /\ checked.links[1].target = "missing.md"
    /\ checked.links[1].anchor = Undefined
    /\ checked.withMap
    /\ "docs/missing.md" \notin files
    /\ "docs/a/found.md" \in files

\* The table maps from to to: the last line of the block keyed from says to.
HoldsEntry(entries, from, to) ==
    \E i \in 1..Len(entries) :
        /\ entries[i].from = from
        /\ entries[i].to = to
        /\ \A j \in (i + 1)..Len(entries) : entries[j].from # from

HasKey(entries, from) == \E i \in 1..Len(entries) : entries[i].from = from

\* C4 as stated: with the entry a/missing -> a/found.md the example link is
\* reported redirect-available.
C4_AsStated ==
    (C4_Example /\ HoldsEntry(redirectEntries, "a/missing", "a/found.md"))
        => validation[1].status = "redirect-available"

\* C4 amended: the lookup key is the resolved path docs/missing.md, so the
\* example link is redirect-available with the entry
\* docs/missing.md -> docs/a/found.md, and broken when the table holds no
\* entry for docs/missing.md or docs/missing, whatever a/missing maps to.
C4_ResolvedPathIsTheKey ==
    /\ (C4_Example /\ HoldsEntry(redirectEntries, "docs/missing.md", "docs/a/found.md"))
          => validation[1].status = "redirect-available"
    /\ (C4_Example /\ ~HasKey(redirectEntries, "docs/missing.md")
                   /\ ~HasKey(redirectEntries, "docs/missing"))
          => validation[1].status = "broken"

\* C4 witness: the example run with both a/missing -> a/found.md and
\* docs/missing.md -> docs/a/found.md in the table.
C4_Witness ==
    /\ C4_Example
    /\ HoldsEntry(redirectEntries, "a/missing", "a/found.md")
    /\ HoldsEntry(redirectEntries, "docs/missing.md", "docs/a/found.md")
    /\ validation[1].status = "redirect-available"

(***************************************************************************)
(* The suggestion run: findAllFixSuggestions over the broken links of a    *)
(* validator run                                                           *)
(***************************************************************************)
SuggestSourceFiles == {"d/a.md"}

SuggestOptionalFiles == {"x/old.md", "d/odl.md", "d/new.md", "d/README.md"}

SuggestRedirectLines ==
    {<<"d/old.md", "x/old.md">>, <<"d/old", "d/new.md">>, <<"d/old.md", "d/gone.md">>}

\* Two orders in which glob may list the tree.
Listings ==
    {<<"d/README.md", "d/a.md", "d/new.md", "d/odl.md", "x/old.md">>,
     <<"x/old.md", "d/odl.md", "d/new.md", "d/a.md", "d/README.md">>}

SuggestDocuments ==
    {Document("d/a.md", <<"old.md">>),
     Document("d/a.md", <<"./sub/", "old.md#s">>),
     Document("d/a.md", <<"/d/old.md", "odl">>)}

InitSuggest ==
    /\ \E opt \in SUBSET SuggestOptionalFiles : files = SuggestSourceFiles \cup opt
    /\ \E n \in 0..MaxRedirects :
          redirectEntries \in RedirectTables(SuggestRedirectLines, n)
    /\ listing \in Listings
    /\ ValidatorIdle
    /\ SuggestIdle
    /\ NoDisk
    /\ FixerIdle
    /\ FixModeIdle
    /\ ParserIdle
    /\ AnchorIdle
    /\ ServerIdle
    /\ BatchIdle
    /\ SummaryIdle
    /\ CheckerIdle

\* findAllFixSuggestions(brokenLinks, projectRoot, redirectMap): the cache is
\* dropped, then filled by the first broken link the redirects do not settle.
FindAllFixSuggestions ==
    /\ checked.filePath # ""
    /\ suggestions = <<>>
    /\ LET cache == getAllFiles(files, listing)
       IN  /\ suggestions' =
                [i \in 1..Len(brokenLinks) |->
                    [broken |-> brokenLinks[i],
                     suggestion |-> findFixSuggestion(files, redirectEntries, cache,
                                                      brokenLinks[i])]]
           /\ allFilesCache' =
                IF \E i \in 1..Len(brokenLinks) :
                      ~IsSuggestion(findRedirectSuggestion(files, redirectEntries,
                                                           brokenPathOf(brokenLinks[i])))
                THEN [loaded |-> TRUE, paths |-> cache]
                ELSE NullCache
    /\ UNCHANGED <<envVars, summaryVars, checkerVars, anchorVars, serverVars, batchVars, parserVars, validatorVars, diskVars, fixerVars, fixModeVars>>

\* clearFilesCache()
ClearFilesCache ==
    /\ allFilesCache.loaded
    /\ allFilesCache' = NullCache
    /\ UNCHANGED <<envVars, summaryVars, checkerVars, anchorVars, serverVars, batchVars, parserVars, validatorVars, suggestions, diskVars, fixerVars, fixModeVars>>

NextSuggest ==
    \/ \E doc \in SuggestDocuments, withMap \in BOOLEAN : CheckLinks(doc, withMap)
    \/ FindAllFixSuggestions
    \/ ClearFilesCache

SpecSuggest == InitSuggest /\ [][NextSuggest]_vars

(***************************************************************************)
(* Claims about the suggestion engine                                      *)
(***************************************************************************)
\* The results of the five strategies for a broken link, in the order
\* redirect, basename, similarity, case variation, neighbour README.
StrategyResults(broken) ==
    LET cache == getAllFiles(files, listing)
        brokenPath == brokenPathOf(broken)
    IN  <<findRedirectSuggestion(files, redirectEntries, brokenPath),
          findByBasename(cache, brokenPath),
          findBySimilarity(cache, brokenPath),
          findByCaseVariation(cache, brokenPath),
          findNeighborReadme(files, broken)>>

SameSuggestion(a, b) ==
    /\ a.confidence = b.confidence
    /\ a.suggestedPath = b.suggestedPath
    /\ a.reason = b.reason

\* The suggestion of item i is that of the first strategy that gives one,
\* and there is none only if all five give none.
FirstStrategyWins(i) ==
    LET s == suggestions[i].suggestion
        results == StrategyResults(suggestions[i].broken)
        given == {k \in 1..5 : IsSuggestion(results[k])}
    IN  /\ \A k \in given : (\A j \in given : k <= j) => SameSuggestion(s, results[k])
        /\ ~IsSuggestion(s) <=> given = {}

\* The spellings of the broken path of item i whose redirect lookup gives a
\* destination that exists.
RedirectedVariations(i) ==
    LET vs == redirectVariations(brokenPathOf(suggestions[i].broken))
    IN  {k \in 1..4 : LET dest == LookupDestination(redirectEntries, vs[k])
                      IN  Truthy(dest) /\ PathNormalize(dest) \in files}

\* C1 as stated: the first strategy wins, and whenever the table has an
\* entry for the broken path or one of its variants whose destination
\* exists, the suggestion is of high confidence and is that destination.
C1_AsStated ==
    \A i \in 1..Len(suggestions) :
        /\ FirstStrategyWins(i)
        /\ \A e \in 1..Len(redirectEntries) :
              LET vs == redirectVariations(brokenPathOf(suggestions[i].broken))
              IN  ((\E k \in 1..4 : redirectEntries[e].from = vs[k])
                   /\ PathNormalize(redirectEntries[e].to) \in files)
                  => /\ suggestions[i].suggestion.confidence = "high"
                     /\ suggestions[i].suggestion.suggestedPath = redirectEntries[e].to

\* C1 amended: the first strategy wins, and whenever the redirect lookup of
\* the broken path or of one of its variants gives a destination that
\* exists, the suggestion is of high confidence and is the destination
\* looked up for the first such variant in the order path, without leading
\* slash, without .md, without both.
C1_FirstRedirectedVariantWins ==
    \A i \in 1..Len(suggestions) :
        /\ FirstStrategyWins(i)
        /\ LET redirected == RedirectedVariations(i)
               vs == redirectVariations(brokenPathOf(suggestions[i].broken))
           IN  redirected # {}
                  => LET k == CHOOSE g \in redirected : \A h \in redirected : g <= h
                     IN  /\ suggestions[i].suggestion.confidence = "high"
                         /\ suggestions[i].suggestion.suggestedPath =
                               LookupDestination(redirectEntries, vs[k])

\* C1 witness: a broken link that both the redirects and the basename
\* strategy have an answer for got the redirect's, with two variants of its
\* path redirected to different existing files; another broken link of the
\* run got the neighbour README.
C1_Witness ==
    /\ \E i \in 1..Len(suggestions) :
          /\ Cardinality({LookupDestination(redirectEntries,
                             redirectVariations(brokenPathOf(suggestions[i].broken))[k]) :
                          k \in RedirectedVariations(i)}) = 2
          /\ IsSuggestion(StrategyResults(suggestions[i].broken)[2])
          /\ suggestions[i].suggestion.confidence = "high"
    /\ \E i \in 1..Len(suggestions) :
          /\ suggestions[i].suggestion.confidence = "low"
          /\ suggestions[i].suggestion.suggestedPath = "d/README.md"

(***************************************************************************)
(* The fixer run: applyFixes or applyFix on the files of a project         *)
(***************************************************************************)
\* The most fixes a batch holds.
MaxFixes == 3

FixSourceFiles == {"docs/a.md", "docs/b.md"}

\* The files the suggestions name.
FixTargetFiles == {"docs/new.md", "x/here.md", "docs/a$$b.md", "old2.md"}

\* docs/a.md as it was parsed, and as it is when its last line has been
\* removed and the one before reworded since.
ParsedLinesOfA ==
    <<"# A", "[x](old.md) [x2](old.md)", "see [z](gone.md#s).", "[y](<old.md>)">>

StaleLinesOfA == <<"# A", "[x](old.md) [x2](old.md)", "see z.">>

LinesOfB == <<"[w](../old.md)">>

BrokenOf(sourceFile, link, resolved) ==
    [sourceFile |-> sourceFile, link |-> link, status |-> "broken",
     resolvedPath |-> resolved, error |-> "Target not found: " \o resolved]

SuggestionOf(confidence, suggestedPath) ==
    [confidence |-> confidence, suggestedPath |-> suggestedPath,
     reason |-> "File with same name found in different location",
     redirectEntry |-> Undefined]

\* The fixes a batch is made of: the broken links of the parsed documents
\* with a suggestion each (two for the link of line 3).
Fixes ==
    {[broken |-> BrokenOf("docs/a.md",
                          createParsedLink("[x](old.md)", "x", "old.md", 2, 1),
                          "docs/old.md"),
      suggestion |-> SuggestionOf("medium", "docs/new.md")],
     [broken |-> BrokenOf("docs/a.md",
                          createParsedLink("[z](gone.md#s)", "z", "gone.md#s", 3, 5),
                          "docs/gone.md"),
      suggestion |-> SuggestionOf("medium", "x/here.md")],
     [broken |-> BrokenOf("docs/a.md",
                          createParsedLink("[z](gone.md#s)", "z", "gone.md#s", 3, 5),
                          "docs/gone.md"),
      suggestion |-> SuggestionOf("low", "docs/a$$b.md")],
     [broken |-> BrokenOf("docs/a.md",
                          createParsedLink("[y](<old.md>)", "y", "old.md", 4, 1),
                          "docs/old.md"),
      suggestion |-> SuggestionOf("medium", "docs/new.md")],
     [broken |-> BrokenOf("docs/b.md",
                          createParsedLink("[w](../old.md)", "w", "../old.md", 1, 1),
                          "old.md"),
      suggestion |-> SuggestionOf("medium", "old2.md")]}

\* The batches: up to MaxFixes different fixes in any order.
Batches ==
    {b \in UNION {[1..n -> Fixes] : n \in 1..MaxFixes} :
        \A i, j \in 1..Len(b) : b[i] = b[j] => i = j}

InitFix ==
    /\ files = FixSourceFiles \cup FixTargetFiles
    /\ redirectEntries = <<>>
    /\ listing = <<>>
    /\ ValidatorIdle
    /\ SuggestIdle
    /\ \E linesOfA \in {ParsedLinesOfA, StaleLinesOfA} :
          contents = [f \in FixSourceFiles |->
                        IF f = "docs/a.md" THEN linesOfA ELSE LinesOfB]
    /\ unreadable \in SUBSET FixSourceFiles
    /\ unwritable \in SUBSET (FixSourceFiles \ unreadable)
    /\ gitbookYaml = <<>>
    /\ FixerIdle
    /\ FixModeIdle
    /\ ParserIdle
    /\ AnchorIdle
    /\ ServerIdle
    /\ BatchIdle
    /\ SummaryIdle
    /\ CheckerIdle

\* applyFixes(fixes, projectRoot)
ApplyFixes(fixes) ==
    /\ fixCall.op = ""
    /\ \E out \in {applyFixes(contents, unreadable, unwritable, fixes)} :
          /\ contents' = out.contents
          /\ fixResults' = out.results
          /\ fixThrown' = out.thrown
          /\ ioLog' = out.log
    /\ contentsBefore' = contents
    /\ fixCall' = [op |-> "applyFixes", fixes |-> fixes]
    /\ UNCHANGED <<envVars, summaryVars, checkerVars, anchorVars, serverVars, batchVars, parserVars, validatorVars, suggestVars, unreadable, unwritable,
                   gitbookYaml, redirectsAdded, fixModeVars>>

\* applyFix(broken, suggestion, projectRoot)
ApplyFix(fix) ==
    /\ fixCall.op = ""
    /\ \E out \in {applyFix(contents, unreadable, unwritable, fix)} :
          /\ contents' = out.contents
          /\ fixResults' = <<out.result>>
          /\ ioLog' = out.log
    /\ fixThrown' = Undefined
    /\ contentsBefore' = contents
    /\ fixCall' = [op |-> "applyFix", fixes |-> <<fix>>]
    /\ UNCHANGED <<envVars, summaryVars, checkerVars, anchorVars, serverVars, batchVars, parserVars, validatorVars, suggestVars, unreadable, unwritable,
                   gitbookYaml, redirectsAdded, fixModeVars>>

NextFix ==
    \/ \E fixes \in Batches : ApplyFixes(fixes)
    \/ \E fix \in Fixes : ApplyFix(fix)

SpecFix == InitFix /\ [][NextFix]_vars

(***************************************************************************)
(* Claims about the fixer                                                  *)
(***************************************************************************)
\* s with every occurrence of the text from replaced by the text to.
RECURSIVE TextReplaceAll(_, _, _)
TextReplaceAll(s, from, to) ==
    LET k == IndexOf(s, from)
    IN  IF k = 0 THEN s
        ELSE SubSeq(s, 1, k - 1) \o to \o TextReplaceAll(From(s, k + Len(from)), from, to)

\* The old target of a link as the document spells it, and the new one.
OldTargetText(link) == link.target \o (IF Truthy(link.anchor) THEN "#" \o link.anchor ELSE "")

NewTargetText(r) ==
    LET rel == PathRelative(PathDirname(r.sourceFile), r.newPath)
        dotted == IF StartsWith(rel, ".") THEN rel ELSE "./" \o rel
    IN  dotted \o (IF Truthy(r.originalLink.anchor) THEN "#" \o r.originalLink.anchor ELSE "")

\* line with the new target in place of the old target of the link (in
\* angle brackets or not) and otherwise unchanged.
Retargeted(line, r) ==
    TextReplaceAll(
        TextReplaceAll(line, "](<" \o OldTargetText(r.originalLink) \o ">)",
                       "](" \o NewTargetText(r) \o ")"),
        "](" \o OldTargetText(r.originalLink) \o ")",
        "](" \o NewTargetText(r) \o ")")

\* An applyFixes call was made whose fixes address different lines of one
\* source file.
OneFileDifferentLines ==
    /\ fixCall.op = "applyFixes"
    /\ \A i, j \in 1..Len(fixCall.fixes) :
          /\ fixCall.fixes[i].broken.sourceFile = fixCall.fixes[j].broken.sourceFile
          /\ fixCall.fixes[i].broken.link.line = fixCall.fixes[j].broken.link.line => i = j

\* The FixResults of the call that are for the fix.
ResultsOf(fix) ==
    {j \in 1..Len(fixResults) :
        /\ fixResults[j].sourceFile = fix.broken.sourceFile
        /\ fixResults[j].originalLink = fix.broken.link
        /\ fixResults[j].newPath = fix.suggestion.suggestedPath}

\* C5 as stated: after applyFixes on fixes of different lines of one file,
\* the file has as many lines as before, every line that is not the line of
\* a successful fix is as before, and the line of a successful fix holds the
\* new target (with the original anchor) in place of the old one and is
\* otherwise as before.
C5_AsStated ==
    OneFileDifferentLines =>
        LET f == fixCall.fixes[1].broken.sourceFile
            fixedLines == {fixResults[j].originalLink.line :
                              j \in {i \in 1..Len(fixResults) : fixResults[i].success}}
        IN  /\ Len(contents[f]) = Len(contentsBefore[f])
            /\ \A k \in 1..Len(contents[f]) :
                  k \notin fixedLines => contents[f][k] = contentsBefore[f][k]
            /\ \A j \in 1..Len(fixResults) :
                  fixResults[j].success =>
                      LET k == fixResults[j].originalLink.line
                      IN  /\ Includes(contents[f][k], "](" \o NewTargetText(fixResults[j]) \o ")")
                          /\ contents[f][k] = Retargeted(contentsBefore[f][k], fixResults[j])

\* C5 failing run: two fixes on different lines of docs/a.md were reported
\* successful, the suggested path of one holds "$$", and the line written
\* for it does not hold its new target.
C5_Witness ==
    /\ OneFileDifferentLines
    /\ Len(fixResults) = 2
    /\ \A j \in 1..2 : fixResults[j].success
    /\ \E j \in 1..2 :
          /\ fixResults[j].newPath = "docs/a$$b.md"
          /\ contents["docs/a.md"][3] = "see [z](./a$b.md#s)."
          /\ ~Includes(contents["docs/a.md"][3], NewTargetText(fixResults[j]))

\* The recorded line of the fix is not in the file as it was, or does not
\* hold the link.
Mismatched(fix) ==
    LET lines == contentsBefore[fix.broken.sourceFile]
        k == fix.broken.link.line
    IN  \/ k < 1
        \/ k > Len(lines)
        \/ /\ ~Includes(lines[k], "](" \o OldTargetText(fix.broken.link) \o ")")
           /\ ~Includes(lines[k], "](<" \o OldTargetText(fix.broken.link) \o ">)")

\* C6 as stated: in applyFixes a fix whose link is not found on its line, or
\* whose line is outside the file, gets a FixResult with success = false and
\* an error, its line stays as it was, and the call returns as many
\* FixResults as it was given fixes.
C6_AsStated ==
    (fixCall.op = "applyFixes" /\ \E i \in 1..Len(fixCall.fixes) : Mismatched(fixCall.fixes[i]))
        => /\ Len(fixResults) = Len(fixCall.fixes)
           /\ \A i \in 1..Len(fixCall.fixes) :
                 LET fix == fixCall.fixes[i]
                     f == fix.broken.sourceFile
                     k == fix.broken.link.line
                 IN  Mismatched(fix) =>
                        /\ ResultsOf(fix) # {}
                        /\ \A j \in ResultsOf(fix) :
                              ~fixResults[j].success /\ Truthy(fixResults[j].error)
                        /\ k \in 1..Len(contentsBefore[f]) =>
                              contents[f][k] = contentsBefore[f][k]

\* The same without the failure of a read or a write: no source file of the
\* batch is unreadable or unwritable.
NoIOFailure ==
    \A i \in 1..Len(fixCall.fixes) :
        fixCall.fixes[i].broken.sourceFile \notin unreadable \cup unwritable

\* C6 failing run: a batch held a fix for a line that no longer has the link
\* and a fix for another file that cannot be read; the call returned no
\* FixResult.
C6_Witness ==
    /\ fixCall.op = "applyFixes"
    /\ \E i, j \in 1..Len(fixCall.fixes) :
          /\ Mismatched(fixCall.fixes[i])
          /\ fixCall.fixes[i].broken.sourceFile \notin unreadable \cup unwritable
          /\ fixCall.fixes[j].broken.sourceFile \in unreadable
    /\ fixResults = <<>>
    /\ Truthy(fixThrown)

\* C7 as stated: when a read or a write of a source file fails during
\* applyFixes, no exception leaves the call, the fixes of that file get a
\* FixResult with success = false and the error text, and the fixes of the
\* other files are applied and reported.
C7_AsStated ==
    (fixCall.op = "applyFixes" /\ ~NoIOFailure)
        => /\ fixThrown = Undefined
           /\ \A i \in 1..Len(fixCall.fixes) :
                 LET fix == fixCall.fixes[i]
                 IN  /\ ResultsOf(fix) # {}
                     /\ fix.broken.sourceFile \in unreadable \cup unwritable
                           => \A j \in ResultsOf(fix) :
                                 ~fixResults[j].success /\ Truthy(fixResults[j].error)
                     /\ (fix.broken.sourceFile \notin unreadable \cup unwritable
                         /\ ~Mismatched(fix))
                           => \E j \in ResultsOf(fix) : fixResults[j].success

\* C7 failing run: docs/b.md was rewritten, then the read of docs/a.md
\* failed: the exception left applyFixes and no FixResult was returned, not
\* even for the file already written.
C7_Witness ==
    /\ fixCall.op = "applyFixes"
    /\ Truthy(fixThrown)
    /\ fixResults = <<>>
    /\ \E i \in 1..Len(ioLog) : ioLog[i] = [op |-> "write", file |-> "docs/b.md", ok |-> TRUE]
    /\ ioLog[Len(ioLog)] = [op |-> "read", file |-> "docs/a.md", ok |-> FALSE]
    /\ contents["docs/b.md"] # contentsBefore["docs/b.md"]

(***************************************************************************)
(* Fix mode: handleFixMode on the broken links of a run                    *)
(***************************************************************************)
\* The broken links of the report, in report order, each with its
\* suggestion: one of high, one of medium and one of low confidence and one
\* without a suggestion.
ReportedDetails ==
    <<[broken |-> BrokenOf("docs/a.md",
                           createParsedLink("[x](old.md)", "x", "old.md", 2, 1),
                           "docs/old.md"),
       suggestion |-> [confidence |-> "high", suggestedPath |-> "docs/new.md",
                       reason |-> "Redirect exists in .gitbook.yaml",
                       redirectEntry |-> [from |-> "docs/old", to |-> "docs/new.md", line |-> 4]]],
      [broken |-> BrokenOf("docs/a.md",
                           createParsedLink("[z](gone.md#s)", "z", "gone.md#s", 3, 5),
                           "docs/gone.md"),
       suggestion |-> SuggestionOf("medium", "x/here.md")],
      [broken |-> BrokenOf("docs/a.md",
                           createParsedLink("[y](<old.md>)", "y", "old.md", 4, 1),
                           "docs/old.md"),
       suggestion |-> NoSuggestion],
      [broken |-> BrokenOf("docs/b.md",
                           createParsedLink("[w](../old.md)", "w", "../old.md", 1, 1),
                           "old.md"),
       suggestion |-> SuggestionOf("low", "old2.md")]>>

\* The items of a sequence at the positions of a set, in order.
RECURSIVE SubSequence(_, _, _)
SubSequence(seq, keep, k) ==
    IF k > Len(seq) THEN <<>>
    ELSE (IF k \in keep THEN <<seq[k]>> ELSE <<>>) \o SubSequence(seq, keep, k + 1)

\* What the user may type at a prompt.
Answers == {"y", "Yes", "n", ""}

ConfigLines ==
    <<"root: ./", "", "redirects:", "  docs/old: docs/new.md", "", "structure:",
      "  summary: SUMMARY.md">>

InitialContents ==
    [f \in FixSourceFiles |-> IF f = "docs/a.md" THEN ParsedLinesOfA ELSE LinesOfB]

InitFixMode ==
    /\ \E withConfig \in BOOLEAN :
          /\ files = FixSourceFiles \cup FixTargetFiles
                        \cup (IF withConfig THEN {GitbookYaml} ELSE {})
          /\ gitbookYaml = IF withConfig THEN ConfigLines ELSE <<>>
    /\ redirectEntries = <<>>
    /\ listing = <<>>
    /\ ValidatorIdle
    /\ SuggestIdle
    /\ contents = InitialContents
    /\ unreadable \in {{}, {"docs/b.md"}}
    /\ unwritable = {}
    /\ FixerIdle
    /\ FixModeIdle
    /\ ParserIdle
    /\ AnchorIdle
    /\ ServerIdle
    /\ BatchIdle
    /\ SummaryIdle
    /\ CheckerIdle

\* The end of handleFixMode: the fixes to apply, if any, are passed to
\* applyFixesWithRedirects.
FinishFixMode(toApply) ==
    /\ fixesToApply' = toApply
    /\ IF Len(toApply) > 0
       THEN \E out \in {applyFixesWithRedirects(
                            contents, gitbookYaml, unreadable, unwritable, toApply,
                            fixMode'.addRedirects
                                /\ fileExists(files, joinPaths(ProjectRoot, GitbookYaml)))} :
                /\ contents' = out.contents
                /\ gitbookYaml' = out.yaml
                /\ fixResults' = out.results
                /\ redirectsAdded' = out.redirectsAdded
                /\ fixThrown' = out.thrown
                /\ ioLog' = out.log
                /\ contentsBefore' = contents
                /\ fixCall' = [op |-> "applyFixesWithRedirects", fixes |-> toApply]
       ELSE UNCHANGED <<contents, gitbookYaml, fixerVars>>

\* handleFixMode up to its first question, or to its end when it has none
\* to ask.  index.ts calls it with --fix or --interactive and at least one
\* broken link.
HandleFixMode(details, autoFix, interactive, addRedirectsOption) ==
    /\ fixMode.phase = "idle"
    /\ autoFix \/ interactive
    /\ Len(details) > 0
    /\ \E grouped \in {groupByConfidence(withSuggestion(details))} :
       \E auto \in {IF autoFix THEN grouped.high ELSE <<>>},
          toAsk \in {IF interactive THEN grouped.medium \o grouped.low ELSE <<>>} :
           /\ pending' = toAsk
           /\ fixMode' = [phase |-> IF Len(toAsk) > 0 THEN "asking" ELSE "done",
                          autoFix |-> autoFix, interactive |-> interactive,
                          addRedirects |-> addRedirectsOption, details |-> details]
           /\ IF Len(toAsk) > 0
              THEN /\ fixesToApply' = auto
                   /\ UNCHANGED <<contents, gitbookYaml, fixerVars>>
              ELSE FinishFixMode(auto)
    /\ answered' = <<>>
    /\ UNCHANGED <<envVars, summaryVars, checkerVars, anchorVars, serverVars, batchVars, parserVars, validatorVars, suggestVars, unreadable, unwritable>>

\* The user answers the question asked; handleFixMode goes on to the next
\* question, or to its end.
AnswerPrompt(answer) ==
    /\ fixMode.phase = "asking"
    /\ \E toApply \in {IF askConfirmation(answer) THEN Append(fixesToApply, Head(pending))
                       ELSE fixesToApply} :
           /\ answered' = Append(answered, [item |-> Head(pending), answer |-> answer])
           /\ pending' = Tail(pending)
           /\ IF Len(pending) > 1
              THEN /\ fixMode' = fixMode
                   /\ fixesToApply' = toApply
                   /\ UNCHANGED <<contents, gitbookYaml, fixerVars>>
              ELSE /\ fixMode' = [fixMode EXCEPT !.phase = "done"]
                   /\ FinishFixMode(toApply)
    /\ UNCHANGED <<envVars, summaryVars, checkerVars, anchorVars, serverVars, batchVars, parserVars, validatorVars, suggestVars, unreadable, unwritable>>

NextFixMode ==
    \/ \E keep \in (SUBSET (1..Len(ReportedDetails))) \ {{}},
          autoFix \in BOOLEAN, interactive \in BOOLEAN, addRedirectsOption \in BOOLEAN :
          HandleFixMode(SubSequence(ReportedDetails, keep, 1),
                        autoFix, interactive, addRedirectsOption)
    \/ \E answer \in Answers : AnswerPrompt(answer)

SpecFixMode == InitFixMode /\ [][NextFixMode]_vars

(***************************************************************************)
(* Claims about fix mode                                                   *)
(***************************************************************************)
\* The answers that say yes.
Affirmative == {"y", "Yes"}

\* The user was asked about the item and answered yes.
Confirmed(item) ==
    \E k \in 1..Len(answered) :
        answered[k].item = item /\ answered[k].answer \in Affirmative

InDetails(item) == \E k \in 1..Len(fixMode.details) : fixMode.details[k] = item

\* The lines of file f that are not as they were at the start.
RewrittenLines(f) ==
    {k \in 1..Len(InitialContents[f]) :
        k > Len(contents[f]) \/ contents[f][k] # InitialContents[f][k]}

MaxTextLen == 4

\* The characters of those texts: letters of both cases, a digit, the
\* underscore, the hyphen, white space and punctuation.
TextChars == {"A", "a", "1", "_", "-", " ", "!"}

RECURSIVE TextsUpTo(_)
TextsUpTo(n) ==
    IF n = 0 THEN {""}
    ELSE LET shorter == TextsUpTo(n - 1)
         IN  shorter \cup {t \o c : t \in shorter, c \in TextChars}

InitSlug ==
    /\ files = {}
    /\ redirectEntries = <<>>
    /\ listing = <<>>
    /\ ValidatorIdle
    /\ SuggestIdle
    /\ NoDisk
    /\ FixerIdle
    /\ FixModeIdle
    /\ document = <<>>
    /\ headingText \in TextsUpTo(MaxTextLen)
    /\ NothingParsed
    /\ AnchorIdle
    /\ ServerIdle
    /\ BatchIdle
    /\ SummaryIdle
    /\ CheckerIdle

\* suggestAnchorForText(headingText)
SuggestAnchorForText ==
    /\ anchorId = Undefined
    /\ anchorId' = suggestAnchorForText(headingText)
    /\ UNCHANGED <<envVars, summaryVars, checkerVars, anchorVars, serverVars, batchVars, validatorVars, suggestVars, diskVars, fixerVars, fixModeVars,
                   document, fileLinks, fileHeadings, headingText>>

\* The anchor id generated is itself taken as a heading text.
AnchorIdAsText ==
    /\ anchorId # Undefined
    /\ headingText # anchorId
    /\ headingText' = anchorId
    /\ anchorId' = suggestAnchorForText(anchorId)
    /\ UNCHANGED <<envVars, summaryVars, checkerVars, anchorVars, serverVars, batchVars, validatorVars, suggestVars, diskVars, fixerVars, fixModeVars,
                   document, fileLinks, fileHeadings>>

NextSlug ==
    \/ SuggestAnchorForText
    \/ AnchorIdAsText

SpecSlug == InitSlug /\ [][NextSlug]_vars

\* The letter of the other case; a character that is no letter is itself.
OtherCase(c) ==
    IF c \in DOMAIN LowerOf THEN LowerOf[c]
    ELSE IF IndexOf(LowerLetters, c) # 0 /\ Len(c) = 1 THEN CharAt(UpperLetters, IndexOf(LowerLetters, c))
    ELSE c

\* The texts that differ from a text in the case of letters only.
RECURSIVE CaseVariants(_)
CaseVariants(text) ==
    IF Len(text) = 0 THEN {""}
    ELSE {c \o rest : c \in {CharAt(text, 1), OtherCase(CharAt(text, 1))},
                      rest \in CaseVariants(From(text, 2))}

LowerWordChars ==
    {CharAt(LowerLetters, k) : k \in 1..Len(LowerLetters)}
        \cup {"0", "1", "2", "3", "4", "5", "6", "7", "8", "9", "_"}

\* Lower-case word characters and single hyphens, none at either end.
IsSlug(id) ==
    /\ \A k \in 1..Len(id) : CharAt(id, k) \in LowerWordChars \cup {"-"}
    /\ \A k \in 1..(Len(id) - 1) : ~(CharAt(id, k) = "-" /\ CharAt(id, k + 1) = "-")
    /\ ~StartsWith(id, "-")
    /\ ~EndsWith(id, "-")

\* C9: generateAnchorId is idempotent and case-insensitive: the id of an id
\* is that id, texts that differ in letter case only have the same id, an id
\* is made of lower-case word characters and single hyphens with no hyphen
\* at either end, and the id of the empty text is the empty text.
C9_SlugIdempotentCaseInsensitive ==
    anchorId # Undefined =>
        /\ generateAnchorId(anchorId) = anchorId
        /\ \A other \in CaseVariants(headingText) : generateAnchorId(other) = anchorId
        /\ IsSlug(anchorId)
        /\ headingText = "" => anchorId = ""

\* C9 witness: a text with a capital, punctuation, white space next to a
\* hyphen and a hyphen at its end has got its id, which differs from it.
C9_Witness ==
    /\ headingText = "A! -"
    /\ anchorId = "a"

(***************************************************************************)
(* Links and headings of documents with fenced code blocks                 *)
(***************************************************************************)
\* The most lines a document holds.
MaxLines == 4

\* The lines documents are made of: the two fence markers, the second one
\* indented and with an info string, a heading that holds a link, a line
\* with a link of each other kind, and plain text.
DocumentLines ==
    {BacktickFence,
     "  ~~~ts",
     "# See [x](a.md)",
     "<a href='b.md'> data-ref=\"c.md\" [y](<d e.md>)",
     "text"}

RECURSIVE DocumentsUpTo(_)
DocumentsUpTo(n) ==
    IF n = 0 THEN {<<>>}
    ELSE LET shorter == DocumentsUpTo(n - 1)
         IN  shorter \cup {Append(d, line) : d \in shorter, line \in DocumentLines}

ParsedFile == "docs/a.md"

InitParse ==
    /\ files = {ParsedFile}
    /\ redirectEntries = <<>>
    /\ listing = <<>>
    /\ ValidatorIdle
    /\ SuggestIdle
    /\ NoDisk
    /\ FixerIdle
    /\ FixModeIdle
    /\ document \in DocumentsUpTo(MaxLines)
    /\ headingText = ""
    /\ NothingParsed
    /\ AnchorIdle
    /\ ServerIdle
    /\ BatchIdle
    /\ SummaryIdle
    /\ CheckerIdle

ParseMarkdownLinks ==
    /\ fileLinks.filePath = Undefined
    /\ fileLinks' = parseMarkdownLinks(ParsedFile, document)
    /\ UNCHANGED <<envVars, summaryVars, checkerVars, anchorVars, serverVars, batchVars, validatorVars, suggestVars, diskVars, fixerVars, fixModeVars,
                   document, fileHeadings, headingText, anchorId>>

ParseMarkdownHeadings ==
    /\ fileHeadings.filePath = Undefined
    /\ fileHeadings' = parseMarkdownHeadings(ParsedFile, document)
    /\ UNCHANGED <<envVars, summaryVars, checkerVars, anchorVars, serverVars, batchVars, validatorVars, suggestVars, diskVars, fixerVars, fixModeVars,
                   document, fileLinks, headingText, anchorId>>

NextParse ==
    \/ ParseMarkdownLinks
    \/ ParseMarkdownHeadings

SpecParse == InitParse /\ [][NextParse]_vars

\* The fence marker lines of the document.
MarkerLines == {k \in 1..Len(document) : IsFence(document[k])}

\* A marker opens a block when the markers before it pair up; the marker
\* that closes the block is the next marker after it, 0 when there is none.
IsOpener(k) == k \in MarkerLines /\ Cardinality({m \in MarkerLines : m < k}) % 2 = 0

CloserOf(k) ==
    IF \E m \in MarkerLines : m > k
    THEN CHOOSE m \in MarkerLines : m > k /\ \A other \in MarkerLines : other > k => m <= other
    ELSE 0

\* Line k lies between an opener and its closing marker, or after an opener
\* that is never closed.
InFencedBlock(k) ==
    \E o \in 1..(k - 1) : IsOpener(o) /\ (CloserOf(o) = 0 \/ k < CloserOf(o))

ExtractedLines ==
    {fileLinks.links[i].line : i \in 1..Len(fileLinks.links)}
        \cup {fileHeadings.headings[i].line : i \in 1..Len(fileHeadings.headings)}

\* The kind of fence marker a line is, "none" for a line that is none.
KindOf(line) ==
    IF StartsWith(Trim(line), BacktickFence) THEN "backtick"
    ELSE IF StartsWith(Trim(line), TildeFence) THEN "tilde"
    ELSE "none"

\* The first line from k on that is a marker of one of the kinds, 0 when
\* there is none.
NextMarker(k, kinds) ==
    LET later == {m \in k..Len(document) : KindOf(document[m]) \in kinds}
    IN  IF later = {} THEN 0 ELSE CHOOSE m \in later : \A other \in later : m <= other

\* The blocks from line k on when a block is closed only by a marker of the
\* kind that opened it: each an opener with its closer, 0 for none.
RECURSIVE SameKindBlocksFrom(_)
SameKindBlocksFrom(k) ==
    LET opener == NextMarker(k, {"backtick", "tilde"})
        closer == NextMarker(opener + 1, {KindOf(document[opener])})
    IN  IF opener = 0 THEN {}
        ELSE {<<opener, closer>>}
                \cup (IF closer = 0 THEN {} ELSE SameKindBlocksFrom(closer + 1))

\* C10 as stated, the matching closing marker being the next marker of the
\* opener's own kind: no heading and no link is extracted from a line
\* between an opener and that marker, nor from a line after an opener that
\* no such marker closes.
C10_AsStated ==
    \A k \in ExtractedLines :
        ~\E block \in SameKindBlocksFrom(1) :
            block[1] < k /\ (block[2] = 0 \/ k < block[2])

\* C10, amended: no heading and no link is extracted from a line that lies
\* between a fence opener and the next fence marker of either kind, which
\* closes it, nor from a line after an opener that no marker follows.
C10_NothingExtractedInsideFence ==
    \A k \in ExtractedLines : ~InFencedBlock(k)

\* C10 witness: a tilde fence is closed by a backtick marker, the line
\* between them holds a heading and a link and yields neither, and the same
\* line after the block yields both.
C10_Witness ==
    /\ document = <<"  ~~~ts", "# See [x](a.md)", BacktickFence, "# See [x](a.md)">>
    /\ fileLinks.filePath = ParsedFile
    /\ fileHeadings.filePath = ParsedFile
    /\ Len(fileLinks.links) = 1
    /\ fileLinks.links[1].line = 4
    /\ fileLinks.links[1].target = "a.md"
    /\ Len(fileHeadings.headings) = 1
    /\ fileHeadings.headings[1].line = 4
    /\ fileHeadings.headings[1].id = "see-xamd"

(***************************************************************************)
(* The anchor run: validateAnchor on the headings of the files of a tree   *)
(***************************************************************************)
\* The most lines a target file holds.
MaxHeadings == 4

\* The file whose headings are read, and a file the tree does not hold.
AnchorFile == "docs/guide.md"

MissingAnchorFile == "docs/none.md"

\* The lines target files are made of: headings whose ids are within one or
\* two edits of each other, one with a custom id in mixed case, and the
\* heading of the example.
HeadingLines ==
    {"# ab", "# abc", "## Abd {#ABd}", "# abx y", "# Installation"}

\* The documents of up to n different lines, in every order.
RECURSIVE HeadingDocumentsUpTo(_)
HeadingDocumentsUpTo(n) ==
    IF n = 0 THEN {<<>>}
    ELSE HeadingDocumentsUpTo(n - 1)
            \cup {d \in {Append(e, l) : e \in HeadingDocumentsUpTo(n - 1), l \in HeadingLines} :
                     \A i, j \in 1..Len(d) : d[i] = d[j] => i = j}

\* The anchors asked for: a near miss of several ids, an id in another
\* case, an id as written, the near miss of the example, and a stranger.
Anchors == {"abx", "ABD", "abc", "instalation", "zz"}

InitAnchor ==
    /\ files = {AnchorFile}
    /\ redirectEntries = <<>>
    /\ listing = <<>>
    /\ ValidatorIdle
    /\ SuggestIdle
    /\ \E d \in HeadingDocumentsUpTo(MaxHeadings) : contents = [f \in {AnchorFile} |-> d]
    /\ unreadable = {}
    /\ unwritable = {}
    /\ gitbookYaml = <<>>
    /\ FixerIdle
    /\ FixModeIdle
    /\ ParserIdle
    /\ AnchorIdle
    /\ ServerIdle
    /\ BatchIdle
    /\ SummaryIdle
    /\ CheckerIdle

\* validateAnchor(targetFile, anchor, projectRoot)
ValidateAnchor(targetFile, anchor) ==
    /\ anchorCall' = [targetFile |-> targetFile, anchor |-> anchor]
    /\ \E got \in {getFileHeadings(files, contents, headingsCache, targetFile)} :
          /\ headingsCache' = got.cache
          /\ headingsGot' = [filePath |-> targetFile, found |-> got.found,
                             headings |-> got.headings]
          /\ anchorResult' = anchorChecked(got, targetFile, anchor, ToLower(anchor))
    /\ UNCHANGED <<envVars, summaryVars, checkerVars, validatorVars, suggestVars, diskVars, fixerVars, fixModeVars,
                   parserVars, serverVars, batchVars>>

\* clearHeadingsCache()
ClearHeadingsCache ==
    /\ headingsCache # <<>>
    /\ headingsCache' = <<>>
    /\ UNCHANGED <<envVars, summaryVars, checkerVars, validatorVars, suggestVars, diskVars, fixerVars, fixModeVars,
                   parserVars, serverVars, batchVars, anchorCall, anchorResult, headingsGot>>

NextAnchor ==
    \/ \E targetFile \in {AnchorFile, MissingAnchorFile}, anchor \in Anchors :
          ValidateAnchor(targetFile, anchor)
    \/ ClearHeadingsCache

SpecAnchor == InitAnchor /\ [][NextAnchor]_vars

(***************************************************************************)
(* Claims about anchor validation                                          *)
(***************************************************************************)
\* The heading ids of the target file of the call, as parseMarkdownHeadings
\* reads them from the file.
TargetIds ==
    LET hs == parseMarkdownHeadings(anchorCall.targetFile,
                                    contents[anchorCall.targetFile]).headings
    IN  [i \in 1..Len(hs) |-> hs[i].id]

\* Twice the edit distance of two strings compared without regard to case
\* is less than the length of the longer: their similarity is above 0.5.
Similar(a, b) ==
    2 * levenshtein(ToLower(a), ToLower(b)) < Max(Len(a), Len(b))

\* a is strictly more similar to the anchor than b is:
\* 1 - da/ma > 1 - db/mb, that is da * mb < db * ma.
MoreSimilar(anchor, a, b) ==
    levenshtein(ToLower(anchor), ToLower(a)) * Max(Len(anchor), Len(b))
        < levenshtein(ToLower(anchor), ToLower(b)) * Max(Len(anchor), Len(a))

\* How often an id occurs in a list of ids.
Occurrences(ids, id) == Cardinality({i \in 1..Len(ids) : ids[i] = id})

AnchorCalled == anchorCall.targetFile = AnchorFile

\* C11: validateAnchor on a file of the tree returns valid exactly when a
\* heading id of the file equals the anchor as written or without regard
\* to case.  Otherwise it returns at most three suggestions, each a heading
\* id of the file whose similarity to the anchor is above 0.5 (twice the
\* edit distance is below the longer length), in order of non-increasing
\* similarity, and no id left out is strictly more similar than one
\* returned; the id installation is among the suggestions for the anchor
\* instalation.
C11_ValidOrNearestThree ==
    AnchorCalled =>
        LET ids == TargetIds
            anchor == anchorCall.anchor
            given == anchorResult.suggestions
        IN  /\ anchorResult.valid
                <=> \E i \in 1..Len(ids) :
                       ids[i] = anchor \/ ToLower(ids[i]) = ToLower(anchor)
            /\ anchorResult.valid => given = <<>>
            /\ ~anchorResult.valid =>
                  /\ Len(given) <= 3
                  /\ \A k \in 1..Len(given) :
                        /\ \E i \in 1..Len(ids) : ids[i] = given[k]
                        /\ Similar(anchor, given[k])
                        /\ Occurrences(given, given[k]) <= Occurrences(ids, given[k])
                  /\ \A k \in 1..(Len(given) - 1) :
                        ~MoreSimilar(anchor, given[k + 1], given[k])
                  /\ \A i \in 1..Len(ids) :
                        (Similar(anchor, ids[i])
                         /\ Occurrences(given, ids[i]) < Occurrences(ids, ids[i]))
                            => /\ Len(given) = 3
                               /\ \A k \in 1..3 : ~MoreSimilar(anchor, ids[i], given[k])
                  /\ (anchor = "instalation"
                      /\ \E i \in 1..Len(ids) : ids[i] = "installation")
                        => \E k \in 1..Len(given) : given[k] = "installation"

\* C11 witness: for the anchor abx the file holds four ids above 0.5, the
\* least similar of them first; the three returned are the other three, in
\* file order, and abx-y is left out.  The cache holds the file.
C11_Witness ==
    /\ AnchorCalled
    /\ anchorCall.anchor = "abx"
    /\ TargetIds = <<"abx-y", "ab", "ABd", "abc">>
    /\ ~anchorResult.valid
    /\ anchorResult.suggestions = <<"ab", "ABd", "abc">>
    /\ Len(headingsCache) = 1

(***************************************************************************)
(* The suggestion run on trees where several files share a file name       *)
(***************************************************************************)
AmbiguousOptionalFiles == {"x/old.md", "x/y/old.md", "z/w/old.md", "d/x/old.md"}

\* Redirect lines for the broken path: to a file that may exist and to one
\* that never does.
AmbiguousRedirectLines == {<<"d/old.md", "x/old.md">>, <<"d/old.md", "d/gone.md">>}

\* The most entries the redirects block holds in these runs.
MaxAmbiguousRedirects == 1

AmbiguousListings ==
    {<<"d/a.md", "d/x/old.md", "x/old.md", "x/y/old.md", "z/w/old.md">>,
     <<"z/w/old.md", "x/y/old.md", "x/old.md", "d/x/old.md", "d/a.md">>}

AmbiguousDocuments ==
    {Document("d/a.md", <<"old.md">>),
     Document("d/a.md", <<"./old.md#s", "/q/old.md">>)}

InitAmbiguous ==
    /\ \E opt \in SUBSET AmbiguousOptionalFiles : files = SuggestSourceFiles \cup opt
    /\ \E n \in 0..MaxAmbiguousRedirects :
          redirectEntries \in RedirectTables(AmbiguousRedirectLines, n)
    /\ listing \in AmbiguousListings
    /\ ValidatorIdle
    /\ SuggestIdle
    /\ NoDisk
    /\ FixerIdle
    /\ FixModeIdle
    /\ ParserIdle
    /\ AnchorIdle
    /\ ServerIdle
    /\ BatchIdle
    /\ SummaryIdle
    /\ CheckerIdle

NextAmbiguous ==
    \/ \E doc \in AmbiguousDocuments, withMap \in BOOLEAN : CheckLinks(doc, withMap)
    \/ FindAllFixSuggestions
    \/ ClearFilesCache

SpecAmbiguous == InitAmbiguous /\ [][NextAmbiguous]_vars

\* The files getAllFiles lists whose file name is that of the broken path of
\* item i, compared without regard to case.
Candidates(i) ==
    LET cache == getAllFiles(files, listing)
        brokenPath == brokenPathOf(suggestions[i].broken)
    IN  {cache[k] : k \in {j \in 1..Len(cache) :
                             ToLower(PathBasename(cache[j]))
                                = ToLower(PathBasename(brokenPath))}}

\* Item i is an ambiguous match the redirects do not settle: several
\* candidates, none with a path-overlap score above 0.5, and no redirect
\* suggestion.
Ambiguous(i) ==
    LET brokenPath == brokenPathOf(suggestions[i].broken)
    IN  /\ Cardinality(Candidates(i)) > 1
        /\ \A f \in Candidates(i) :
              ~FracGreater(calculatePathSimilarity(brokenPath, f), <<1, 2>>)
        /\ ~IsSuggestion(findRedirectSuggestion(files, redirectEntries, brokenPath))

\* C12 as stated: an ambiguous match that no redirect settles gets no
\* suggestion.
C12_AsStated ==
    \A i \in 1..Len(suggestions) : Ambiguous(i) => ~IsSuggestion(suggestions[i].suggestion)

\* What the engine does instead: for an ambiguous match that no redirect
\* settles the basename strategy gives nothing, and findFixSuggestion goes
\* on to the later strategies:
\* the suggestion is that of the first of edit-distance similarity, case
\* variation and neighbour README that gives one, which may be one of the
\* candidates, and there is none only when all three give none.
LaterStrategiesAnswer ==
    \A i \in 1..Len(suggestions) :
        Ambiguous(i) =>
            LET results == StrategyResults(suggestions[i].broken)
                s == suggestions[i].suggestion
                given == {k \in 3..5 : IsSuggestion(results[k])}
            IN  /\ ~IsSuggestion(results[2])
                /\ IsSuggestion(s) <=> given # {}
                /\ \A k \in given :
                      (\A j \in given : k <= j) => SameSuggestion(s, results[k])
                /\ IsSuggestion(s) =>
                      s.reason \notin
                         {"File with same name found in different location",
                          "Similar file found (" \o ToString(Cardinality(Candidates(i)))
                              \o " candidates, best match selected)"}

\* C12 witness: the broken path d/old.md has the candidates x/old.md and
\* x/y/old.md, neither above 0.5, no redirect settles it, and the
\* suggestion is the candidate x/old.md, found by edit distance.
C12_Witness ==
    \E i \in 1..Len(suggestions) :
        /\ Ambiguous(i)
        /\ Candidates(i) = {"x/old.md", "x/y/old.md"}
        /\ suggestions[i].suggestion.suggestedPath = "x/old.md"
        /\ suggestions[i].suggestion.confidence = "medium"
        /\ suggestions[i].suggestion.reason = "Similar path found (edit distance: 1)"

(***************************************************************************)
(* The batch run: applyFixesWithRedirects statement by statement, with the *)
(* process free to be ended between two of its statements or inside a      *)
(* write                                                                   *)
(***************************************************************************)
\* The most fixes a batch of these runs holds.
MaxBatch == 3

\* docs/b.md with a link above its directory and one spelled with ./
BatchLinesOfB == <<"[w](../old.md)", "[v](./old.md)">>

\* The fixes of these runs: two on different lines of each source file.  The
\* first and the last give the same redirect; the third gives none.
BatchFixes ==
    {[broken |-> BrokenOf("docs/a.md",
                          createParsedLink("[x](old.md)", "x", "old.md", 2, 1),
                          "docs/old.md"),
      suggestion |-> SuggestionOf("medium", "docs/new.md")],
     [broken |-> BrokenOf("docs/a.md",
                          createParsedLink("[z](gone.md#s)", "z", "gone.md#s", 3, 5),
                          "docs/gone.md"),
      suggestion |-> SuggestionOf("medium", "x/here.md")],
     [broken |-> BrokenOf("docs/b.md",
                          createParsedLink("[w](../old.md)", "w", "../old.md", 1, 1),
                          "old.md"),
      suggestion |-> SuggestionOf("medium", "old2.md")],
     [broken |-> BrokenOf("docs/b.md",
                          createParsedLink("[v](./old.md)", "v", "./old.md", 2, 1),
                          "docs/old.md"),
      suggestion |-> SuggestionOf("medium", "docs/new.md")]}

BatchesOfRun ==
    {b \in UNION {[1..n -> BatchFixes] : n \in 1..MaxBatch} :
        \A i, j \in 1..Len(b) : b[i] = b[j] => i = j}

\* The configurations: a block with an entry and a key after it, a block
\* with a blank line between its entries at the end of the file, an empty
\* block followed by a key, no block, and a block with a deeper line after
\* its entry that a comment in the first column ends before an indented
\* line, in a file whose last line is empty.
YamlConfigs ==
    {ConfigLines,
     <<"root: ./", "redirects:", "  old: docs/x.md", "", "  b: c.md">>,
     <<"redirects:", "structure:", "  summary: SUMMARY.md">>,
     <<"root: ./", "structure:", "  summary: SUMMARY.md">>,
     <<"redirects:", "  a: b.md", "    # kept", "# pages", "  c: d.md", "">>}

\* The lists addRedirects is called with on its own.
RedirectLists ==
    {<<>>,
     <<[from |-> "old", to |-> "docs/new.md"]>>,
     <<[from |-> "b", to |-> "z.md"], [from |-> "old", to |-> "docs/new.md"]>>}

\* What cannot be read or written in a run.
IOFaults ==
    {[unreadable |-> {}, unwritable |-> {}],
     [unreadable |-> {"docs/b.md"}, unwritable |-> {}],
     [unreadable |-> {}, unwritable |-> {"docs/a.md"}],
     [unreadable |-> {}, unwritable |-> {GitbookYaml}]}

InitBatch ==
    /\ files = FixSourceFiles \cup FixTargetFiles \cup {GitbookYaml}
    /\ redirectEntries = <<>>
    /\ listing = <<>>
    /\ ValidatorIdle
    /\ SuggestIdle
    /\ \E linesOfA \in {ParsedLinesOfA, StaleLinesOfA} :
          contents = [f \in FixSourceFiles |->
                        IF f = "docs/a.md" THEN linesOfA ELSE BatchLinesOfB]
    /\ \E fault \in IOFaults :
          /\ unreadable = fault.unreadable
          /\ unwritable = fault.unwritable
    /\ gitbookYaml \in YamlConfigs
    /\ FixerIdle
    /\ FixModeIdle
    /\ ParserIdle
    /\ AnchorIdle
    /\ ServerIdle
    /\ BatchIdle
    /\ SummaryIdle
    /\ CheckerIdle

Event(op, file, line, ok) == [op |-> op, file |-> file, line |-> line, ok |-> ok]

\* The position after the fixes of file k are written: the next file, or
\* the redirects when it was the last.
afterFile(sourceFiles, k) == IF k >= Len(sourceFiles) THEN "redirects" ELSE "read"

\* applyFixesWithRedirects is called: applyFixes groups the fixes by source
\* file.
StartBatch(fixes, addRedirectsFlag) ==
    /\ run.pc = "idle"
    /\ run' = [NoRun EXCEPT !.pc = "read",
                            !.addRedirectsFlag = addRedirectsFlag,
                            !.sourceFiles = fixedFiles(fixes, {}),
                            !.k = 1]
    /\ fixCall' = [op |-> "applyFixesWithRedirects", fixes |-> fixes]
    /\ contentsBefore' = contents
    /\ yamlBefore' = gitbookYaml
    /\ UNCHANGED <<envVars, summaryVars, checkerVars, validatorVars, suggestVars, diskVars, fixModeVars, parserVars,
                   anchorVars, serverVars, fixResults, fixThrown, ioLog, redirectsAdded,
                   trace, appended>>

\* applyFixes: the fixes of the next file are sorted and the file is read.
ReadSourceFile ==
    /\ run.pc = "read"
    /\ \E sourceFile \in {run.sourceFiles[run.k]} :
          IF sourceFile \in unreadable
          THEN /\ run' = [run EXCEPT !.pc = "thrown"]
               /\ fixThrown' = IOError("open", joinPaths(ProjectRoot, sourceFile))
               /\ trace' = Append(trace, Event("read", sourceFile, 0, FALSE))
          ELSE /\ run' = [run EXCEPT
                             !.pc = "fix",
                             !.lines = contents[sourceFile],
                             !.fileFixes = sortByLineDescending(
                                               fixesOfFile(fixCall.fixes, sourceFile), <<>>)]
               /\ fixThrown' = fixThrown
               /\ trace' = Append(trace, Event("read", sourceFile, 0, TRUE))
    /\ UNCHANGED <<envVars, summaryVars, checkerVars, validatorVars, suggestVars, diskVars, fixModeVars, parserVars,
                   anchorVars, serverVars, contentsBefore, fixCall, fixResults, ioLog,
                   redirectsAdded, yamlBefore, appended>>

\* applyFixes: the next fix of the file is applied to the lines held in
\* memory and its FixResult is pushed.
FixLink ==
    /\ run.pc = "fix"
    /\ \E fixed \in {fixLine(run.lines, run.fileFixes[1], "Could not find link to replace")} :
          /\ run' = [run EXCEPT
                        !.pc = IF Len(run.fileFixes) = 1 THEN "write" ELSE "fix",
                        !.lines = fixed.lines,
                        !.fileFixes = Tail(run.fileFixes),
                        !.results = Append(run.results, fixed.result)]
          /\ trace' = Append(trace, Event("fix", fixed.result.sourceFile,
                                          fixed.result.originalLink.line,
                                          fixed.result.success))
    /\ UNCHANGED <<envVars, summaryVars, checkerVars, validatorVars, suggestVars, diskVars, fixModeVars, parserVars,
                   anchorVars, serverVars, fixerVars, yamlBefore, appended>>

\* applyFixes: the lines are written back to the file.
WriteSourceFile ==
    /\ run.pc = "write"
    /\ \E sourceFile \in {run.sourceFiles[run.k]} :
          IF sourceFile \in unwritable
          THEN /\ run' = [run EXCEPT !.pc = "thrown"]
               /\ fixThrown' = IOError("open", joinPaths(ProjectRoot, sourceFile))
               /\ trace' = Append(trace, Event("write", sourceFile, 0, FALSE))
               /\ contents' = contents
          ELSE /\ run' = [run EXCEPT !.pc = afterFile(run.sourceFiles, run.k),
                                     !.k = run.k + 1,
                                     !.lines = <<>>]
               /\ fixThrown' = fixThrown
               /\ trace' = Append(trace, Event("write", sourceFile, 0, TRUE))
               /\ contents' = [contents EXCEPT ![sourceFile] = run.lines]
    /\ UNCHANGED <<envVars, summaryVars, checkerVars, validatorVars, suggestVars, unreadable, unwritable, gitbookYaml,
                   fixModeVars, parserVars, anchorVars, serverVars, contentsBefore, fixCall,
                   fixResults, ioLog, redirectsAdded, yamlBefore, appended>>

\* applyFixesWithRedirects after applyFixes: with the flag off or nothing to
\* add the call returns; otherwise the entries go to applyRedirects.
GenerateRedirects ==
    /\ run.pc = "redirects"
    /\ \E redirects \in {generateRedirectEntries(run.results)} :
          IF run.addRedirectsFlag /\ Len(redirects) > 0
          THEN /\ run' = [run EXCEPT !.pc = "append", !.redirects = redirects]
               /\ UNCHANGED <<fixResults, redirectsAdded>>
          ELSE /\ run' = [run EXCEPT !.pc = "done"]
               /\ fixResults' = run.results
               /\ redirectsAdded' = 0
    /\ UNCHANGED <<envVars, summaryVars, checkerVars, validatorVars, suggestVars, diskVars, fixModeVars, parserVars,
                   anchorVars, serverVars, contentsBefore, fixCall, fixThrown, ioLog,
                   trace, yamlBefore, appended>>

\* addRedirects on the configuration file: read, insert, write.  Undefined
\* for the lines stands for an exception.
yamlWritten(yamlLines, redirects, unreadableFiles, unwritableFiles) ==
    IF GitbookYaml \in unreadableFiles \cup unwritableFiles THEN <<Undefined>>
    ELSE addRedirects(yamlLines, redirects)

\* applyRedirects(gitbookYamlPath, redirects) with entries to add.
AppendRedirects ==
    /\ run.pc = "append"
    /\ appended' = run.redirects
    /\ \E written \in {yamlWritten(gitbookYaml, run.redirects, unreadable, unwritable)} :
          IF written = <<Undefined>>
          THEN /\ run' = [run EXCEPT !.pc = "thrown"]
               /\ fixThrown' = IOError("open", joinPaths(ProjectRoot, GitbookYaml))
               /\ trace' = Append(trace, Event("append", GitbookYaml, 0, FALSE))
               /\ gitbookYaml' = gitbookYaml
          ELSE /\ run' = [run EXCEPT !.pc = "flag"]
               /\ fixThrown' = fixThrown
               /\ trace' = Append(trace, Event("append", GitbookYaml, 0, TRUE))
               /\ gitbookYaml' = written
    /\ UNCHANGED <<envVars, summaryVars, checkerVars, validatorVars, suggestVars, contents, unreadable, unwritable,
                   fixModeVars, parserVars, anchorVars, serverVars, contentsBefore, fixCall,
                   fixResults, ioLog, redirectsAdded, yamlBefore>>

\* redirectsAdded = redirects.length, redirectAdded = true on the successful
\* results, and the call returns.
FlagResults ==
    /\ run.pc = "flag"
    /\ run' = [run EXCEPT !.pc = "done", !.results = redirectAdded(run.results)]
    /\ fixResults' = redirectAdded(run.results)
    /\ redirectsAdded' = Len(run.redirects)
    /\ trace' = Append(trace, Event("flag", GitbookYaml, 0, TRUE))
    /\ UNCHANGED <<envVars, summaryVars, checkerVars, validatorVars, suggestVars, diskVars, fixModeVars, parserVars,
                   anchorVars, serverVars, contentsBefore, fixCall, fixThrown, ioLog,
                   yamlBefore, appended>>

\* The process is ended from outside while the call is in progress.
Interrupt ==
    /\ run.pc \in {"read", "fix", "write", "redirects", "append", "flag"}
    /\ run' = [run EXCEPT !.pc = "killed"]
    /\ UNCHANGED <<envVars, summaryVars, checkerVars, validatorVars, suggestVars, diskVars, fixModeVars, parserVars,
                   anchorVars, serverVars, fixerVars, trace, yamlBefore, appended>>

\* The lines a file holds when the process ends inside fs.writeFileSync: the
\* file is opened with flag "w", which truncates it, and the content reaches
\* it afterwards; any part of the content short of all of it may be there.
CutWrites(lines) == {SubSeq(lines, 1, n) : n \in 0..(Len(lines) - 1)}

\* The process is ended from outside inside the writeFile of a source file
\* or of the configuration.
InterruptWrite ==
    /\ run.pc \in {"write", "append"}
    /\ IF run.pc = "write"
       THEN \E sourceFile \in {run.sourceFiles[run.k]} :
               /\ sourceFile \notin unwritable
               /\ \E cut \in CutWrites(run.lines) :
                     contents' = [contents EXCEPT ![sourceFile] = cut]
               /\ trace' = Append(trace, Event("cut", sourceFile, 0, FALSE))
               /\ UNCHANGED <<gitbookYaml, appended>>
       ELSE /\ GitbookYaml \notin unreadable \cup unwritable
            /\ \E cut \in CutWrites(addRedirects(gitbookYaml, run.redirects)) :
                  gitbookYaml' = cut
            /\ trace' = Append(trace, Event("cut", GitbookYaml, 0, FALSE))
            /\ appended' = run.redirects
            /\ contents' = contents
    /\ run' = [run EXCEPT !.pc = "killed"]
    /\ UNCHANGED <<envVars, summaryVars, checkerVars, validatorVars, suggestVars, unreadable, unwritable, fixModeVars,
                   parserVars, anchorVars, serverVars, fixerVars, yamlBefore>>

\* addRedirects(yamlPath, redirects) called on its own.
AddRedirects(redirects) ==
    /\ run.pc = "idle"
    /\ fixCall' = [op |-> "addRedirects", fixes |-> <<>>]
    /\ yamlBefore' = gitbookYaml
    /\ appended' = redirects
    /\ IF Len(redirects) = 0
       THEN /\ run' = [run EXCEPT !.pc = "done"]
            /\ UNCHANGED <<gitbookYaml, fixThrown, trace>>
       ELSE \E written \in {yamlWritten(gitbookYaml, redirects, unreadable, unwritable)} :
               IF written = <<Undefined>>
               THEN /\ run' = [run EXCEPT !.pc = "thrown"]
                    /\ fixThrown' = IOError("open", joinPaths(ProjectRoot, GitbookYaml))
                    /\ trace' = Append(trace, Event("append", GitbookYaml, 0, FALSE))
                    /\ gitbookYaml' = gitbookYaml
               ELSE /\ run' = [run EXCEPT !.pc = "done"]
                    /\ fixThrown' = fixThrown
                    /\ trace' = Append(trace, Event("append", GitbookYaml, 0, TRUE))
                    /\ gitbookYaml' = written
    /\ UNCHANGED <<envVars, summaryVars, checkerVars, validatorVars, suggestVars, contents, unreadable, unwritable,
                   fixModeVars, parserVars, anchorVars, serverVars, contentsBefore,
                   fixResults, ioLog, redirectsAdded>>

NextBatch ==
    \/ \E fixes \in BatchesOfRun, addRedirectsFlag \in BOOLEAN :
          StartBatch(fixes, addRedirectsFlag)
    \/ ReadSourceFile
    \/ FixLink
    \/ WriteSourceFile
    \/ GenerateRedirects
    \/ AppendRedirects
    \/ FlagResults
    \/ Interrupt
    \/ InterruptWrite
    \/ \E redirects \in RedirectLists : AddRedirects(redirects)

SpecBatch == InitBatch /\ [][NextBatch]_vars

(***************************************************************************)
(* Claims about the batch run                                              *)
(***************************************************************************)
BatchCalled == fixCall.op = "applyFixesWithRedirects"

\* What applyFixesWithRedirects gives when nothing interrupts it, computed
\* in one go.
WholeCall ==
    applyFixesWithRedirects(contentsBefore, yamlBefore, unreadable, unwritable,
                            fixCall.fixes, run.addRedirectsFlag)

\* The statement-by-statement run ends as the call computed in one go: the
\* same files, configuration, results and count, or an exception in both.
StepsAgreeWithWholeCall ==
    (BatchCalled /\ run.pc \in {"done", "thrown"})
        => /\ contents = WholeCall.contents
           /\ gitbookYaml = WholeCall.yaml
           /\ fixResults = WholeCall.results
           /\ redirectsAdded = WholeCall.redirectsAdded
           /\ fixThrown = WholeCall.thrown

\* The redirect a FixResult stands for: its original target without a
\* leading ./ and without a trailing .md, to its new path.
RedirectFrom(r) ==
    LET target == r.originalLink.target
        undotted == IF StartsWith(target, "./") THEN From(target, 3) ELSE target
    IN  IF EndsWith(undotted, ".md") THEN SubSeq(undotted, 1, Len(undotted) - 3)
        ELSE undotted

RedirectOf(r) == [from |-> RedirectFrom(r), to |-> r.newPath]

\* The position of the first event of the trace with the operation, 0 when
\* there is none.
FirstEvent(op) ==
    IF \E i \in 1..Len(trace) : trace[i].op = op
    THEN CHOOSE i \in 1..Len(trace) :
            trace[i].op = op /\ \A j \in 1..(i - 1) : trace[j].op # op
    ELSE 0

\* The configuration holds the line of the entry.
Configured(entry) ==
    \E k \in 1..Len(gitbookYaml) : gitbookYaml[k] = "  " \o entry.from \o ": " \o entry.to

\* C13 as stated: when applyFixesWithRedirects has returned, a FixResult
\* with redirectAdded = true is of a fix that succeeded, the redirect
\* derived from that fix is among the entries appended and in the
\* configuration, and the append was completed before the flags were set;
\* with the option off or no entry generated every FixResult has
\* redirectAdded = false; redirectsAdded is the number of entries appended;
\* and when the append raises no FixResult is flagged.
C13_AsStated ==
    /\ (BatchCalled /\ run.pc = "done") =>
          /\ \A j \in 1..Len(fixResults) :
                fixResults[j].redirectAdded =>
                    /\ fixResults[j].success
                    /\ \E k \in 1..Len(appended) : appended[k] = RedirectOf(fixResults[j])
                    /\ Configured(RedirectOf(fixResults[j]))
                    /\ FirstEvent("append") # 0
                    /\ trace[FirstEvent("append")].ok
                    /\ FirstEvent("append") < FirstEvent("flag")
          /\ (~run.addRedirectsFlag \/ generateRedirectEntries(fixResults) = <<>>)
                => \A j \in 1..Len(fixResults) : ~fixResults[j].redirectAdded
          /\ redirectsAdded = Len(appended)
          /\ Len(gitbookYaml) = Len(yamlBefore) + redirectsAdded
                                    + (IF redirectsAdded > 0
                                          /\ \A k \in 1..Len(yamlBefore) :
                                                yamlBefore[k] # "redirects:"
                                       THEN 2 ELSE 0)
    /\ (BatchCalled /\ run.pc = "thrown") =>
          /\ fixResults = <<>>
          /\ \A j \in 1..Len(run.results) : ~run.results[j].redirectAdded

\* C13 failing run: the batch fixed [x](old.md) and [w](../old.md); the one
\* entry appended is old -> docs/new.md, and the FixResult of the link to
\* ../old.md, from which no entry is derived, has redirectAdded = true.
C13_Witness ==
    /\ BatchCalled
    /\ run.pc = "done"
    /\ appended = <<[from |-> "old", to |-> "docs/new.md"]>>
    /\ redirectsAdded = 1
    /\ \E j \in 1..Len(fixResults) :
          /\ fixResults[j].originalLink.target = "../old.md"
          /\ fixResults[j].success
          /\ fixResults[j].redirectAdded
          /\ ~Configured([from |-> "../old", to |-> "old2.md"])

(***************************************************************************)
(* The dev server: dev-server/index.ts from start to shutdown              *)
(***************************************************************************)
\* A directory is "absent" or named by what it holds: the build cached from
\* an earlier run, the leftover of a run that was ended badly, a build
\* Honkit is still writing, or the build Honkit has finished.
\* dirExists(dirPath)
dirExists(dir) == dir # "absent"

\* renameDirSync(src, dest): src and dest afterwards.
renameDirSync(src, dest) ==
    IF ~dirExists(src) THEN [src |-> src, dest |-> dest]
    ELSE [src |-> "absent", dest |-> src]

\* restoreDirSync(src, dest): dest is removed, then src renamed to it.
restoreDirSync(src, dest) == renameDirSync(src, "absent")

\* A cleanup that only removes the copy and never restores it.
cleanedDirsRemoveOnly(devState, book, temp) == [book |-> book, temp |-> "absent"]

\* The directories after the cleanup handler's restore-or-remove.
cleanedDirs(devState, book, temp) ==
    IF devState.hasCachedBuild /\ ~devState.isLiveMode /\ dirExists(temp)
    THEN [book |-> restoreDirSync(temp, book).dest, temp |-> restoreDirSync(temp, book).src]
    ELSE IF dirExists(temp) THEN [book |-> book, temp |-> "absent"]
    ELSE [book |-> book, temp |-> temp]

\* server.close() on a server that may not have been created.
closed(server) == IF server = "none" THEN "none" ELSE "closed"

\* The handler createCleanupHandler returns, called with shouldExit; child
\* is the Honkit process as the caller leaves it.
Cleanup(shouldExit, child) ==
    IF state.isCleaningUp
    THEN /\ honkit' = child
         /\ UNCHANGED <<bookDir, tempBookDir, state, exited, cleanupRuns>>
    ELSE /\ state' = [state EXCEPT !.isCleaningUp = TRUE,
                                   !.staticServer = closed(state.staticServer),
                                   !.proxyServer = closed(state.proxyServer)]
         /\ \E dirs \in {cleanedDirs(state, bookDir, tempBookDir)} :
               /\ bookDir' = dirs.book
               /\ tempBookDir' = dirs.temp
         /\ honkit' = IF child.status = "running" /\ ~child.killed
                      THEN [child EXCEPT !.killed = TRUE]
                      ELSE child
         /\ exited' = shouldExit
         /\ cleanupRuns' = cleanupRuns + 1

InitServer ==
    /\ files = {}
    /\ redirectEntries = <<>>
    /\ listing = <<>>
    /\ ValidatorIdle
    /\ SuggestIdle
    /\ NoDisk
    /\ FixerIdle
    /\ FixModeIdle
    /\ ParserIdle
    /\ AnchorIdle
    /\ BatchIdle
    /\ SummaryIdle
    /\ CheckerIdle
    /\ bookDir \in {"absent", "cached"}
    /\ tempBookDir \in {"absent", "leftover"}
    /\ state = DevServerState(FALSE)
    /\ honkit = NoHonkit
    /\ exited = FALSE
    /\ cleanupRuns = 0
    /\ signalled = FALSE

otherVars ==
    <<envVars, summaryVars, checkerVars, validatorVars, suggestVars, diskVars, fixerVars, fixModeVars, parserVars,
      anchorVars, batchVars>>

\* runDevServer: the cached build, if any, is moved aside and served, Honkit
\* is spawned and the handlers are registered.
RunDevServer ==
    /\ honkit.status = "none"
    /\ ~exited
    /\ IF dirExists(bookDir)
       THEN /\ \E moved \in {renameDirSync(bookDir, tempBookDir)} :
                  /\ bookDir' = moved.src
                  /\ tempBookDir' = moved.dest
            /\ state' = [DevServerState(TRUE) EXCEPT !.staticServer = "listening",
                                                     !.proxyServer = "listening"]
       ELSE /\ state' = DevServerState(FALSE)
            /\ UNCHANGED <<bookDir, tempBookDir>>
    /\ \E spawned \in BOOLEAN :
          honkit' = IF spawned THEN [NoHonkit EXCEPT !.status = "running"]
                    ELSE [NoHonkit EXCEPT !.status = "failed", !.errorPending = TRUE]
    /\ UNCHANGED <<otherVars, signalled, exited, cleanupRuns>>

\* Honkit writes pages of a build into _book.
HonkitGenerates ==
    /\ honkit.status = "running"
    /\ ~honkit.killed
    /\ bookDir # "building"
    /\ bookDir' = "building"
    /\ UNCHANGED <<otherVars, signalled, tempBookDir, state, honkit, exited, cleanupRuns>>

\* Honkit completes the build and prints "generation finished with success".
HonkitFinishes ==
    /\ honkit.status = "running"
    /\ ~honkit.killed
    /\ bookDir = "building"
    /\ bookDir' = "built"
    /\ honkit' = [honkit EXCEPT !.successPending = TRUE]
    /\ UNCHANGED <<otherVars, signalled, tempBookDir, state, exited, cleanupRuns>>

\* The Honkit process ends: on the signal sent to it, or by itself.
HonkitExits ==
    /\ honkit.status = "running"
    /\ honkit' = [honkit EXCEPT !.status = "exited", !.exitPending = TRUE]
    /\ UNCHANGED <<otherVars, signalled, bookDir, tempBookDir, state, exited, cleanupRuns>>

\* setupHonkitOutputHandlers: stdout data holding "generation finished with
\* success".
OnGenerationFinished ==
    /\ ~exited
    /\ honkit.successPending
    /\ honkit' = [honkit EXCEPT !.successPending = FALSE]
    /\ IF state.isLiveMode
       THEN UNCHANGED <<state, tempBookDir>>
       ELSE IF state.hasCachedBuild
       THEN /\ state' = [state EXCEPT !.staticServer = "none",
                                      !.backend = IF state.proxyServer = "none"
                                                  THEN state.backend ELSE "honkit",
                                      !.isLiveMode = TRUE,
                                      !.watchersSetup = TRUE]
            /\ tempBookDir' = "absent"
       ELSE /\ state' = [state EXCEPT !.proxyServer = "listening",
                                      !.backend = "honkit",
                                      !.isLiveMode = TRUE,
                                      !.watchersSetup = TRUE]
            /\ tempBookDir' = tempBookDir
    /\ UNCHANGED <<otherVars, signalled, bookDir, exited, cleanupRuns>>

\* honkitProcess.on('exit'): onCleanup(false)
OnHonkitExit ==
    /\ ~exited
    /\ honkit.exitPending
    /\ Cleanup(FALSE, [honkit EXCEPT !.exitPending = FALSE])
    /\ UNCHANGED <<otherVars, signalled>>

\* honkitProcess.on('error'): process.exit(1), without cleanup.
OnHonkitError ==
    /\ ~exited
    /\ honkit.errorPending
    /\ honkit' = [honkit EXCEPT !.errorPending = FALSE]
    /\ exited' = TRUE
    /\ UNCHANGED <<otherVars, signalled, bookDir, tempBookDir, state, cleanupRuns>>

\* process.on('SIGINT') and process.on('SIGTERM'): cleanup()
OnSignal ==
    /\ ~exited
    /\ honkit.status # "none"
    /\ Cleanup(TRUE, honkit)
    /\ signalled' = TRUE
    /\ UNCHANGED otherVars

NextServer ==
    \/ RunDevServer
    \/ HonkitGenerates
    \/ HonkitFinishes
    \/ HonkitExits
    \/ OnGenerationFinished
    \/ OnHonkitExit
    \/ OnHonkitError
    \/ OnSignal

SpecServer == InitServer /\ [][NextServer]_vars

(***************************************************************************)
(* Claims about the dev server                                             *)
(***************************************************************************)
\* The step is one in which the body of the cleanup handler runs.
CleanupBodyRuns == cleanupRuns' = cleanupRuns + 1

\* Shutdown before live mode with a cached build: the cached build moved
\* to _book_temp is back in _book when the cleanup body has run.
RestoresBeforeLive ==
    (CleanupBodyRuns /\ state.hasCachedBuild /\ ~state.isLiveMode)
        => /\ tempBookDir = "cached"
           /\ bookDir' = "cached"
           /\ tempBookDir' = "absent"

\* In live mode the cached copy is gone and cleanup leaves _book as it is.
KeepsLiveBuild ==
    /\ (state.isLiveMode /\ state.hasCachedBuild /\ cleanupRuns = 0)
          => tempBookDir = "absent" /\ bookDir \in {"built", "building"}
    /\ (CleanupBodyRuns /\ state.isLiveMode) => bookDir' = bookDir

\* C14: when a cached build existed at start and shutdown comes before live
\* mode is reached, cleanup moves _book_temp back to _book; once live mode
\* is reached the cached copy has been removed and cleanup does not touch
\* _book; when cleanup has run _book_temp does not exist; and the body of
\* cleanup runs at most once, whatever signals and child exits arrive.
C14_CleanupRestoresOnce ==
    /\ [][RestoresBeforeLive /\ KeepsLiveBuild]_vars
    /\ [](cleanupRuns <= 1)
    /\ [](cleanupRuns = 1 => tempBookDir = "absent")
    /\ []((cleanupRuns = 1 /\ state.hasCachedBuild /\ ~state.isLiveMode)
             => bookDir = "cached")

\* C14 witness: the cached build was moved aside, a signal came before live
\* mode, cleanup ran once and ended the process, the build is back in _book
\* and the child that was sent the signal has exited.
C14_Witness ==
    /\ state.hasCachedBuild
    /\ ~state.isLiveMode
    /\ cleanupRuns = 1
    /\ exited
    /\ bookDir = "cached"
    /\ tempBookDir = "absent"
    /\ honkit.killed
    /\ honkit.status = "exited"


(***************************************************************************)
(* The dev server with the event loop running: pending callbacks are run,  *)
(* and the process ends by itself when nothing keeps it alive              *)
(***************************************************************************)
\* What keeps the process alive when no callback is pending: the Honkit
\* child, a server that has not been closed and the fs.watch watchers of
\* live mode, which nothing closes.
KeptAlive ==
    \/ honkit.status = "running"
    \/ state.staticServer = "listening"
    \/ state.proxyServer = "listening"
    \/ state.watchersSetup

\* The process ends with nothing left to wait for.
EventLoopDrains ==
    /\ ~exited
    /\ honkit.status # "none"
    /\ ~honkit.successPending /\ ~honkit.exitPending /\ ~honkit.errorPending
    /\ ~KeptAlive
    /\ exited' = TRUE
    /\ UNCHANGED <<otherVars, signalled, bookDir, tempBookDir, state, honkit, cleanupRuns>>

NextServerLive ==
    \/ NextServer
    \/ EventLoopDrains

\* Callbacks that are pending are run, a child that was sent SIGTERM ends,
\* and an empty event loop ends the process; signals and the child's own
\* progress come when they come.
ServerFairness ==
    /\ WF_vars(OnGenerationFinished)
    /\ WF_vars(OnHonkitExit)
    /\ WF_vars(OnHonkitError)
    /\ WF_vars(honkit.killed /\ HonkitExits)
    /\ WF_vars(EventLoopDrains)

SpecServerLive == InitServer /\ [][NextServerLive]_vars /\ ServerFairness

\* C29 as stated: a SIGINT or SIGTERM delivered to the dev server leads to
\* process exit, also when the Honkit child has exited on its own and
\* cleanup has run once without exiting before the signal arrives.
C29_AsStated == signalled ~> exited

\* What holds: a signal that arrives before cleanup has run ends the
\* process in the handler, and after one that arrives later the process
\* ends unless the watchers of live mode are set up, or are about to be by
\* Honkit's last output, and keep it alive.
SignalExitsUnlessCleanedUp ==
    /\ [][(signalled' /\ ~signalled /\ ~state.isCleaningUp) => exited']_vars
    /\ (signalled /\ ~state.watchersSetup /\ ~honkit.successPending) ~> exited

\* C29 failing run: live mode was reached, Honkit exited on its own,
\* cleanup ran once without exiting, and the signal that came after it
\* found isCleaningUp set: the process is still there, kept alive by the
\* watchers, with no callback pending.
C29_Witness ==
    /\ signalled
    /\ ~exited
    /\ state.isLiveMode
    /\ state.watchersSetup
    /\ state.isCleaningUp
    /\ cleanupRuns = 1
    /\ honkit.status = "exited"
    /\ ~honkit.killed
    /\ ~honkit.exitPending


(***************************************************************************)
(* Link resolution on trees with extensionless files and dotted            *)
(* directories                                                             *)
(***************************************************************************)
ResolveSourceFiles == {"docs/a.md"}

\* Files a tree may or may not hold: an extensionless file "docs/b" next to
\* "docs/b.md", a directory "docs/b" holding a README, and a page below a
\* directory whose name holds a ".".
ResolveOptionalFiles ==
    {"docs/b", "docs/b.md", "docs/b/README.md", "docs/v1.2/c.md", "docs/v1.2/c/README.md",
     "docs/img.png"}

\* A path is a file or a directory of a tree, never both.
IsTree(fs) == \A f \in fs, g \in fs : ~StartsWith(g, f \o "/")

ResolveDocuments ==
    {Document("docs/a.md", <<"b", "v1.2/c">>),
     Document("docs/a.md", <<"./b/", "b.md">>),
     Document("docs/a.md", <<"/docs/v1.2/c#s", "img.png">>),
     Document("docs/a.md", <<"../docs/b#s", "img", "v1.2/c.md">>)}

InitResolve ==
    /\ \E opt \in SUBSET ResolveOptionalFiles :
          /\ IsTree(opt)
          /\ files = ResolveSourceFiles \cup opt
    /\ redirectEntries = <<>>
    /\ listing = <<>>
    /\ ValidatorIdle
    /\ SuggestIdle
    /\ NoDisk
    /\ FixerIdle
    /\ FixModeIdle
    /\ ParserIdle
    /\ AnchorIdle
    /\ ServerIdle
    /\ BatchIdle
    /\ SummaryIdle
    /\ CheckerIdle

NextResolve == \E doc \in ResolveDocuments, withMap \in BOOLEAN : CheckLinks(doc, withMap)

SpecResolve == InitResolve /\ [][NextResolve]_vars

\* The path the target of result i resolves to before any fallback.
ResolvedBase(i) ==
    resolveTarget(validation[i].sourceFile, normalizePath(validation[i].link.target))

\* Result i is that of a link resolveRelativeLink resolved from a path.
Resolves(i) ==
    /\ validation[i].link.type \in {"internal", "asset"}
    /\ validation[i].link.target # ""

\* The resolution the fallback rule gives a path on the tree.
FallbackRule(fs, base) ==
    IF PathExtname(base) # "" \/ base \in fs THEN base
    ELSE IF (base \o ".md") \in fs THEN base \o ".md"
    ELSE IF joinPaths(base, "README.md") \in fs THEN joinPaths(base, "README.md")
    ELSE base

\* C15: a resolved path with an extension is never altered; one without is
\* kept when a file exists at that exact path, else becomes the path with
\* ".md" appended when that file exists, else README.md inside the directory
\* of that name when that file exists, else is kept.
C15_AsStated ==
    \A i \in 1..Len(validation) :
        Resolves(i) => validation[i].resolvedPath = FallbackRule(files, ResolvedBase(i))

\* What the resolver does instead: the fallbacks are tried exactly for the
\* paths that hold no "." anywhere, whether or not a file exists at the path.
FallbackAsCoded(fs, base) ==
    IF Includes(base, ".") THEN base
    ELSE IF (base \o ".md") \in fs THEN base \o ".md"
    ELSE IF joinPaths(base, "README.md") \in fs THEN joinPaths(base, "README.md")
    ELSE base

ResolvesAsCoded ==
    \A i \in 1..Len(validation) :
        Resolves(i) => validation[i].resolvedPath = FallbackAsCoded(files, ResolvedBase(i))

\* The links "b" and "v1.2/c" have been resolved on a tree that holds the
\* file docs/b next to docs/b.md, and docs/v1.2/c.md.
C15_Witness ==
    /\ {"docs/b", "docs/b.md", "docs/v1.2/c.md"} \subseteq files
    /\ Len(validation) = 2
    /\ Resolves(1)
    /\ ResolvedBase(1) = "docs/b"
    /\ ResolvedBase(2) = "docs/v1.2/c"
    /\ validation[1].resolvedPath = "docs/b.md"
    /\ validation[2].resolvedPath = "docs/v1.2/c"
    /\ validation[2].status = "broken"


\* The positions of the trace at which op was done on file.
EventsOf(op, file) == {i \in 1..Len(trace) : trace[i].op = op /\ trace[i].file = file}

\* The source files the batch names.
BatchFiles == {fixCall.fixes[i].broken.sourceFile : i \in 1..Len(fixCall.fixes)}

\* The number of fixes the batch holds for file.
FixesFor(file) ==
    Cardinality({i \in 1..Len(fixCall.fixes) : fixCall.fixes[i].broken.sourceFile = file})

\* C16: within one call each source file of the batch is read at most once,
\* and once when the call returns; it is written at most once, after its
\* read and after every one of its fixes was processed; its fixes are
\* processed in descending order of line number; and no file is written
\* between two fixes of the same file.
C16_ReadOnceWriteLast ==
    BatchCalled =>
        \A file \in BatchFiles :
            /\ Cardinality(EventsOf("read", file)) <= 1
            /\ Cardinality(EventsOf("write", file)) <= 1
            /\ run.pc = "done" => Cardinality(EventsOf("read", file)) = 1
            /\ \A w \in EventsOf("write", file) :
                  /\ \E r \in EventsOf("read", file) : r < w
                  /\ Cardinality({i \in EventsOf("fix", file) : i < w}) = FixesFor(file)
                  /\ \A i \in EventsOf("fix", file) : i < w
            /\ \A i, j \in EventsOf("fix", file) :
                  i < j =>
                     /\ trace[i].line >= trace[j].line
                     /\ \A w \in (i + 1)..(j - 1) : trace[w].op # "write"

\* A batch naming line 2 of docs/a.md before line 3, then docs/b.md, has
\* returned: line 3 was fixed first, and each file was written after its
\* fixes.
C16_Witness ==
    /\ BatchCalled
    /\ run.pc = "done"
    /\ Len(fixCall.fixes) = 3
    /\ fixCall.fixes[1].broken.sourceFile = "docs/a.md"
    /\ fixCall.fixes[1].broken.link.line = 2
    /\ fixCall.fixes[2].broken.link.line = 3
    /\ [i \in 1..Len(trace) |-> <<trace[i].op, trace[i].file, trace[i].line>>]
          = <<<<"read", "docs/a.md", 0>>, <<"fix", "docs/a.md", 3>>, <<"fix", "docs/a.md", 2>>,
              <<"write", "docs/a.md", 0>>, <<"read", "docs/b.md", 0>>,
              <<"fix", "docs/b.md", 2>>, <<"write", "docs/b.md", 0>>>>


\* The positions of the trace at which the configuration was written, in
\* full, in part or in vain.
ConfigWrites == EventsOf("append", GitbookYaml) \cup EventsOf("cut", GitbookYaml)

\* The writes of source files in the trace: in full, in part or in vain.
SourceWrites ==
    {i \in 1..Len(trace) : trace[i].op \in {"write", "cut"} /\ trace[i].file # GitbookYaml}

\* The writeFile of file has completed.
Written(file) == \E w \in EventsOf("write", file) : trace[w].ok

\* The lines of the source files with every fix of the batch applied.
AllFixed == applyFixes(contentsBefore, {}, {}, fixCall.fixes).contents

\* The configuration holds every line it held and every new entry.
HoldsAllNewEntries ==
    /\ Len(gitbookYaml) >= Len(yamlBefore) + Len(appended)
    /\ \A k \in 1..Len(yamlBefore) : \E m \in 1..Len(gitbookYaml) : gitbookYaml[m] = yamlBefore[k]
    /\ \A k \in 1..Len(appended) : Configured(appended[k])

\* The configuration is written at most once per batch, after the write of
\* every source file of the batch has completed, and no source file is
\* written after it.
ConfigWrittenLast ==
    BatchCalled =>
        /\ Cardinality(ConfigWrites) <= 1
        /\ \A a \in ConfigWrites :
              /\ \A file \in BatchFiles : \E w \in EventsOf("write", file) : w < a /\ trace[w].ok
              /\ \A w \in SourceWrites : w < a

\* Wherever the run stands or was ended, each source file already written
\* holds all of its fixes, and the configuration is unchanged or holds all
\* new entries.
WrittenInFull ==
    BatchCalled =>
        /\ \A file \in BatchFiles : Written(file) => contents[file] = AllFixed[file]
        /\ gitbookYaml = yamlBefore \/ HoldsAllNewEntries

\* C17 as stated: the configuration is written at most once per batch, only
\* after every source-file write of the batch has completed, and no source
\* file is written after it; if the run is interrupted at any point, each
\* source file already written keeps all of its fixes and the configuration
\* is unchanged or contains all new entries.
C17_AsStated == ConfigWrittenLast /\ WrittenInFull

\* What holds instead: the order of the writes always, and the files in
\* full in every run not ended inside a writeFile.
WrittenInFullOutsideWrites ==
    /\ ConfigWrittenLast
    /\ (\A i \in 1..Len(trace) : trace[i].op # "cut") => WrittenInFull

\* The run was ended inside the write of the configuration: both source
\* files are written with their fixes, and the configuration has lost lines
\* it held and holds the first of two new entries only.
C17_Witness ==
    /\ BatchCalled
    /\ run.pc = "killed"
    /\ Written("docs/a.md")
    /\ Written("docs/b.md")
    /\ contents = AllFixed
    /\ EventsOf("cut", GitbookYaml) # {}
    /\ Len(appended) = 2
    /\ Configured(appended[1])
    /\ ~Configured(appended[2])
    /\ yamlBefore = ConfigLines
    /\ Len(gitbookYaml) < Len(yamlBefore)


\* applyFixes has returned its results to applyFixesWithRedirects.
ResultsReturned == BatchCalled /\ run.pc \in {"redirects", "append", "flag", "done"}

\* The entries generateRedirectEntries gives for the results of the run.
Generated == generateRedirectEntries(run.results)

\* Result j succeeded and the from of its redirect holds no "..".
GivesRedirect(j) == run.results[j].success /\ ~Includes(RedirectFrom(run.results[j]), "..")

\* The first result the entry is derived from.
FirstResultOf(entry) ==
    CHOOSE j \in 1..Len(run.results) :
        /\ GivesRedirect(j) /\ RedirectOf(run.results[j]) = entry
        /\ \A i \in 1..(j - 1) : ~(GivesRedirect(i) /\ RedirectOf(run.results[i]) = entry)

\* C18: generateRedirectEntries returns one entry per distinct (from, to)
\* derived from the successful results whose from holds no "..", from being
\* the original target without a leading "./" and a trailing ".md" and to
\* the new path; the entries are in order of first occurrence, none is of a
\* failed result, none has a from holding "..", no two are equal; and these
\* are the entries applyFixesWithRedirects hands to applyRedirects.
C18_OneEntryPerPair ==
    ResultsReturned =>
        /\ \A k \in 1..Len(Generated) :
              /\ \E j \in 1..Len(run.results) :
                    GivesRedirect(j) /\ RedirectOf(run.results[j]) = Generated[k]
              /\ ~Includes(Generated[k].from, "..")
        /\ \A j \in 1..Len(run.results) :
              GivesRedirect(j) =>
                 Cardinality({k \in 1..Len(Generated) :
                                 Generated[k] = RedirectOf(run.results[j])}) = 1
        /\ \A k, m \in 1..Len(Generated) :
              k < m => /\ Generated[k] # Generated[m]
                       /\ FirstResultOf(Generated[k]) < FirstResultOf(Generated[m])
        /\ run.pc \in {"append", "flag"} => run.redirects = Generated

\* Three fixes were applied: "./old.md" of docs/b.md, "../old.md" of
\* docs/b.md and "old.md" of docs/a.md; the first and the last give the same
\* pair and the second a from holding "..", so one entry is generated.
C18_Witness ==
    /\ ResultsReturned
    /\ run.pc = "flag"
    /\ Len(run.results) = 3
    /\ \A j \in 1..3 : run.results[j].success
    /\ [j \in 1..3 |-> run.results[j].originalLink.target] = <<"./old.md", "../old.md", "old.md">>
    /\ Generated = <<[from |-> "old", to |-> "docs/new.md"]>>
    /\ run.redirects = Generated


\* addRedirects has written the configuration, called on its own or by
\* applyRedirects.
ConfigWritten == \E i \in EventsOf("append", GitbookYaml) : trace[i].ok

\* The lines of the redirects block that begins at line r of the lines: the
\* lines after r up to the next line that begins a key of the file.
BlockLines(lines, r) ==
    {i \in (r + 1)..Len(lines) : \A j \in (r + 1)..i : ~IsTopLevelLine(lines[j])}

\* The line after which the new entries belong: the last entry of the
\* redirects block, the "redirects:" line when the block has no entry, and
\* 0 when the file has no block.
InsertAfter(lines) ==
    LET heads == {i \in 1..Len(lines) : Trim(lines[i]) = "redirects:"}
    IN  IF heads = {} THEN 0
        ELSE LET r == CHOOSE i \in heads : TRUE
                 entryLines == {i \in BlockLines(lines, r) : IsEntryLine(lines[i])}
             IN  IF entryLines = {} THEN r
                 ELSE CHOOSE i \in entryLines : \A j \in entryLines : j <= i

\* The lines "  from: to" of the list, in list order.
EntryLinesOf(list) == [k \in 1..Len(list) |-> "  " \o list[k].from \o ": " \o list[k].to]

\* C19: with a non-empty list addRedirects keeps every original line in its
\* order and puts the new "  from: to" lines, in list order and next to one
\* another, right after the last entry of the redirects block, right after
\* the "redirects:" line when the block has no entry, and at the end of the
\* file after an added blank line and an added "redirects:" line when there
\* is no block; every entry of the list gets its line whatever the block
\* held; with an empty list the file is not written.
C19_AppendsInPlace ==
    /\ ConfigWritten =>
          /\ Len(appended) > 0
          /\ \E at \in {InsertAfter(yamlBefore)} :
                gitbookYaml =
                    IF at = 0
                    THEN yamlBefore \o <<"", "redirects:">> \o EntryLinesOf(appended)
                    ELSE SubSeq(yamlBefore, 1, at) \o EntryLinesOf(appended)
                            \o SubSeq(yamlBefore, at + 1, Len(yamlBefore))
    /\ (fixCall.op = "addRedirects" /\ appended = <<>>) =>
          /\ run.pc = "done"
          /\ gitbookYaml = yamlBefore
          /\ trace = <<>>

\* addRedirects was called with two entries on a block that holds an entry
\* of the same from as the second, a blank line and another entry: both new
\* lines follow the last entry and the old entry of that from is kept.
C19_Witness ==
    /\ fixCall.op = "addRedirects"
    /\ ConfigWritten
    /\ yamlBefore = <<"root: ./", "redirects:", "  old: docs/x.md", "", "  b: c.md">>
    /\ gitbookYaml = <<"root: ./", "redirects:", "  old: docs/x.md", "", "  b: c.md",
                       "  b: z.md", "  old: docs/new.md">>


(***************************************************************************)
(* The kinds of the links of a document                                    *)
(***************************************************************************)
\* The most lines a document of these runs holds.
MaxKindLines == 2

\* The targets of the links: of every scheme prefix in some spelling, an
\* anchor, assets and pages with and without a fragment, an extension in
\* capitals, and a page whose name begins like a scheme.
KindTargets ==
    {"https://x.io/a.png", "Tel:1", "mailto:me@x.io", "#top", "img.png", "img.png#fig",
     "page.md#sec", "dir/page", "z.PDF", "ftp.md", "a.zip#x#y"}

\* A line that holds one link, to the target.
LinkLine(target) == "[x](" \o target \o ")"

RECURSIVE KindDocumentsUpTo(_)
KindDocumentsUpTo(n) ==
    IF n = 0 THEN {<<>>}
    ELSE LET shorter == KindDocumentsUpTo(n - 1)
         IN  shorter \cup {Append(d, LinkLine(target)) : d \in shorter, target \in KindTargets}

InitKinds ==
    /\ files = {ParsedFile}
    /\ redirectEntries = <<>>
    /\ listing = <<>>
    /\ ValidatorIdle
    /\ SuggestIdle
    /\ NoDisk
    /\ FixerIdle
    /\ FixModeIdle
    /\ document \in KindDocumentsUpTo(MaxKindLines)
    /\ headingText = ""
    /\ NothingParsed
    /\ AnchorIdle
    /\ ServerIdle
    /\ BatchIdle
    /\ SummaryIdle
    /\ CheckerIdle

NextKinds == ParseMarkdownLinks

SpecKinds == InitKinds /\ [][NextKinds]_vars

\* The target written on line k of the document.
TargetOfLine(k) == SubSeq(document[k], 5, Len(document[k]) - 1)

\* The target begins with one of the scheme prefixes, in any spelling.
HasScheme(target) ==
    \E scheme \in {"http:", "https:", "mailto:", "tel:", "ftp:"} :
        StartsWith(ToLower(target), scheme)

\* The target up to its first "#", and what follows that "#".
PathPart(target) ==
    IF Includes(target, "#") THEN SubSeq(target, 1, IndexOf(target, "#") - 1) ELSE target

FragmentPart(target) ==
    IF Includes(target, "#") THEN From(target, IndexOf(target, "#") + 1) ELSE Undefined

\* The kind of a target by the stated priority, the extension being that of
\* the path of the target.
StatedKind(target) ==
    IF HasScheme(target) THEN "external"
    ELSE IF StartsWith(target, "#") THEN "anchor-only"
    ELSE IF ToLower(PathExtname(PathPart(target))) \in assetExtensions THEN "asset"
    ELSE "internal"

\* The kind as the parser assigns it: the extension is that of the whole
\* target, fragment included.
KindOfWholeTarget(target) ==
    IF HasScheme(target) THEN "external"
    ELSE IF StartsWith(target, "#") THEN "anchor-only"
    ELSE IF ToLower(PathExtname(target)) \in assetExtensions THEN "asset"
    ELSE "internal"

LinksParsed == fileLinks.filePath # Undefined

\* The lines of the document whose link is kept, and the place of the link
\* of such a line among the links of the result.
KeptLines == {k \in 1..Len(document) : ~HasScheme(TargetOfLine(k))}

PlaceOf(k) == Cardinality({j \in KeptLines : j <= k})

\* The links of the result are those of the kept lines, in order, each with
\* the path of its target, the fragment as its anchor and the kind that
\* kind(target) gives.
LinksAre(kind(_)) ==
    LinksParsed =>
        /\ Len(fileLinks.links) = Cardinality(KeptLines)
        /\ \A k \in KeptLines :
              \E link \in {fileLinks.links[PlaceOf(k)]} :
                 /\ link.line = k
                 /\ link.type = kind(TargetOfLine(k))
                 /\ link.target = PathPart(TargetOfLine(k))
                 /\ ~Includes(link.target, "#")
                 /\ link.anchor = FragmentPart(TargetOfLine(k))

KindsAsCoded == LinksAre(KindOfWholeTarget)

MaxSummaryLines == 4

\* List items at indentations 0, 1, 2, 3, 4 and 6, with either bullet, and
\* a line that is no list item.
SummaryLineSet ==
    {"* [A](a.md)", " - [F](f.md)", "  * [B](b.md)", "   * [E](e.md)", "    - [C](c.md)",
     "      * [D](d.md)", "# Summary"}

RECURSIVE SummariesUpTo(_)
SummariesUpTo(n) ==
    IF n = 0 THEN {<<>>}
    ELSE LET shorter == SummariesUpTo(n - 1)
         IN  shorter \cup {Append(d, line) : d \in shorter, line \in SummaryLineSet}

InitSummary ==
    /\ files = {}
    /\ redirectEntries = <<>>
    /\ listing = <<>>
    /\ ValidatorIdle
    /\ SuggestIdle
    /\ NoDisk
    /\ FixerIdle
    /\ FixModeIdle
    /\ ParserIdle
    /\ AnchorIdle
    /\ ServerIdle
    /\ BatchIdle
    /\ summaryLines \in SummariesUpTo(MaxSummaryLines)
    /\ structure = NoStructure
    /\ flattened = <<>>
    /\ CheckerIdle

\* parseSummary(summaryPath)
ParseSummary ==
    /\ ~structure.parsed
    /\ structure' = parseSummary(summaryLines)
    /\ UNCHANGED <<envVars, checkerVars, validatorVars, suggestVars, diskVars, fixerVars,
                   fixModeVars, parserVars, anchorVars, serverVars, batchVars,
                   summaryLines, flattened>>

\* flattenSummary(structure)
FlattenSummary ==
    /\ structure.parsed
    /\ flattened = <<>>
    /\ flattened' = flattenSummary(structure)
    /\ UNCHANGED <<envVars, checkerVars, validatorVars, suggestVars, diskVars, fixerVars,
                   fixModeVars, parserVars, anchorVars, serverVars, batchVars,
                   summaryLines, structure>>

NextSummary ==
    \/ ParseSummary
    \/ FlattenSummary

SpecSummary == InitSummary /\ [][NextSummary]_vars

(***************************************************************************)
(* Claims about the navigation list                                        *)
(***************************************************************************)
\* The column of the bullet of a list item: the first character of the line
\* after its indentation, when that is "*" or "-"; 0 for a line that is no
\* list item.
BulletAt(line) ==
    LET columns == {i \in 1..Len(line) :
                      /\ CharAt(line, i) \in {"*", "-"}
                      /\ \A j \in 1..(i - 1) : CharAt(line, j) = " "}
    IN  IF columns = {} THEN 0 ELSE CHOOSE i \in columns : TRUE

\* The list items of the file: the numbers of the lines that are items.
ItemLines ==
    {k \in 1..Len(summaryLines) : BulletAt(summaryLines[k]) # 0}

\* The depth of the item of line k: its indentation in units of two columns.
DepthOfLine(k) == (BulletAt(summaryLines[k]) - 1) \div 2

\* The declarative rule: the parent of the item of line k is the nearest
\* item before it of a strictly smaller depth, 0 standing for none.
ParentLine(k) ==
    LET above == {j \in ItemLines : j < k /\ DepthOfLine(j) < DepthOfLine(k)}
    IN  IF above = {} THEN 0 ELSE CHOOSE j \in above : \A i \in above : i <= j

\* The items whose parent is p, in document order.
RECURSIVE InOrder(_)
InOrder(lineSet) ==
    IF lineSet = {} THEN <<>>
    ELSE LET first == CHOOSE k \in lineSet : \A j \in lineSet : k <= j
         IN  <<first>> \o InOrder(lineSet \ {first})

ChildLines(p) == InOrder({k \in ItemLines : ParentLine(k) = p})

\* The forest the declarative rule gives: the trees of the items below p.
RECURSIVE DeclaredForest(_)
DeclaredForest(p) ==
    [n \in 1..Len(ChildLines(p)) |->
        LET k == ChildLines(p)[n]
            match == entryRegexExec(summaryLines[k])
        IN  [title |-> Trim(match.title),
             path |-> Trim(match.rawPath),
             line |-> k,
             depth |-> DepthOfLine(k),
             children |-> DeclaredForest(k)]]

\* Every child of every entry of the forest is deeper than the entry.
RECURSIVE ChildrenDeeper(_)
ChildrenDeeper(entries) ==
    \A n \in 1..Len(entries) :
        /\ \A c \in 1..Len(entries[n].children) : entries[n].children[c].depth > entries[n].depth
        /\ ChildrenDeeper(entries[n].children)

\* C21: the forest parseSummary builds is that of the declarative rule, in
\* which each item is a child of the nearest item before it of a strictly
\* smaller depth and a root when there is none; every child is deeper than
\* its parent; and flattenSummary gives every item once, in document order.
C21_StackBuildsDeclaredForest ==
    /\ structure.parsed =>
          /\ structure.entries = DeclaredForest(0)
          /\ ChildrenDeeper(structure.entries)
          /\ Len(structure.allPaths) = Cardinality(ItemLines)
    /\ flattened # <<>> =>
          [n \in 1..Len(flattened) |-> flattened[n].line] = InOrder(ItemLines)

\* A list of inconsistent indentation was parsed and flattened: an item of
\* depth 2 first, then one of depth 1, one of depth 3 below it and one of
\* depth 2 that is a child of the second, not of the third.
C21_Witness ==
    /\ summaryLines = <<"    - [C](c.md)", "  * [B](b.md)", "      * [D](d.md)", "    - [C](c.md)">>
    /\ structure.parsed
    /\ Len(structure.entries) = 2
    /\ structure.entries[1].children = <<>>
    /\ [c \in 1..2 |-> structure.entries[2].children[c].line] = <<3, 4>>
    /\ [n \in 1..Len(flattened) |-> flattened[n].line] = <<1, 2, 3, 4>>


(***************************************************************************)
(* The headings cache while the files change on disk                       *)
(***************************************************************************)
\* A second file with headings of its own.
OtherAnchorFile == "docs/other.md"

CachedFiles == {AnchorFile, OtherAnchorFile}

\* The contents the files take.
CacheDocuments == {<<"# ab">>, <<"# abc", "## Abd {#ABd}">>, <<"text">>}

CacheAnchors == {"ab", "zz"}

InitCache ==
    /\ files = CachedFiles
    /\ redirectEntries = <<>>
    /\ listing = <<>>
    /\ ValidatorIdle
    /\ SuggestIdle
    /\ contents \in [CachedFiles -> CacheDocuments]
    /\ unreadable = {}
    /\ unwritable = {}
    /\ gitbookYaml = <<>>
    /\ FixerIdle
    /\ FixModeIdle
    /\ ParserIdle
    /\ AnchorIdle
    /\ ServerIdle
    /\ BatchIdle
    /\ SummaryIdle
    /\ CheckerIdle

\* Something outside the checker writes the file: new content and a new
\* modification time; a file that was removed is there again.
FileWritten(file, lines) ==
    /\ files' = files \cup {file}
    /\ contents' = [contents EXCEPT ![file] = lines]
    /\ UNCHANGED <<redirectEntries, listing, summaryVars, checkerVars, validatorVars,
                   suggestVars, unreadable, unwritable, gitbookYaml, fixerVars, fixModeVars,
                   parserVars, anchorVars, serverVars, batchVars>>

\* Something outside the checker removes the file.
FileRemoved(file) ==
    /\ file \in files
    /\ files' = files \ {file}
    /\ contents' = [contents EXCEPT ![file] = <<>>]
    /\ UNCHANGED <<redirectEntries, listing, summaryVars, checkerVars, validatorVars,
                   suggestVars, unreadable, unwritable, gitbookYaml, fixerVars, fixModeVars,
                   parserVars, anchorVars, serverVars, batchVars>>

NextCache ==
    \/ \E targetFile \in CachedFiles, anchor \in CacheAnchors : ValidateAnchor(targetFile, anchor)
    \/ ClearHeadingsCache
    \/ \E file \in CachedFiles, lines \in CacheDocuments : FileWritten(file, lines)
    \/ \E file \in CachedFiles : FileRemoved(file)

SpecCache == InitCache /\ [][NextCache]_vars

(***************************************************************************)
(* Claims about the headings cache                                         *)
(***************************************************************************)
\* The step is a call of getFileHeadings for the path; a call that changes
\* nothing is no step.
CallFor(file) ==
    /\ <<anchorCall, anchorResult, headingsGot, headingsCache>>'
          # <<anchorCall, anchorResult, headingsGot, headingsCache>>
    /\ headingsCache' # <<>> \/ headingsCache = <<>>
    /\ headingsGot'.filePath = file

\* The step is a call of clearHeadingsCache.
ClearStep == headingsCache # <<>> /\ headingsCache' = <<>>

\* The entry the cache holds for the path.
EntryOf(cache, file) == headingsCacheGet(cache, file)

\* No step but clearHeadingsCache removes or replaces an entry, and a call
\* for a path the cache does not hold, made while the file exists, reads and
\* parses the file and adds its entry.
OnlyClearDrops ==
    /\ ~ClearStep =>
          \A file \in CachedFiles :
             headingsCacheHas(headingsCache, file) =>
                /\ headingsCacheHas(headingsCache', file)
                /\ EntryOf(headingsCache', file) = EntryOf(headingsCache, file)
    /\ ClearStep => UNCHANGED <<files, contents, anchorCall, anchorResult, headingsGot>>
    /\ \A file \in CachedFiles :
          (CallFor(file) /\ ~headingsCacheHas(headingsCache, file) /\ file \in files) =>
             /\ headingsGot'.found
             /\ headingsGot'.headings = parseMarkdownHeadings(file, contents[file]).headings
             /\ headingsCacheHas(headingsCache', file)
             /\ EntryOf(headingsCache', file).headings = headingsGot'.headings

\* A call for a path the cache holds returns the memoized headings.
ReturnsMemoized(file) ==
    /\ headingsGot'.found
    /\ headingsGot'.headings = EntryOf(headingsCache, file).headings

\* C22 as stated: once the headings of a path are loaded, every later call
\* for the path returns the memoized result, whatever happens to the file on
\* disk in between, until clearHeadingsCache is called; the first call after
\* a clear reads and parses the file again; and nothing but
\* clearHeadingsCache removes or replaces an entry.
C22_AsStated ==
    [][/\ OnlyClearDrops
       /\ \A file \in CachedFiles :
             (CallFor(file) /\ headingsCacheHas(headingsCache, file)) => ReturnsMemoized(file)]_vars

\* C22 amended: the memoized result is returned by every later call made
\* while a file exists at the path, whatever its content has become; a call
\* made while no file exists there returns null and leaves the entry in the
\* cache, so that the memoized result is returned again once a file is back.
C22_MemoizedWhileFileExists ==
    [][/\ OnlyClearDrops
       /\ \A file \in CachedFiles :
             (CallFor(file) /\ headingsCacheHas(headingsCache, file)) =>
                IF file \in files THEN ReturnsMemoized(file)
                ELSE /\ ~headingsGot'.found
                     /\ headingsCache' = headingsCache]_vars

\* The cache holds the headings of docs/guide.md as they were loaded, the
\* file has other content now, and the last call for it returned the
\* memoized headings.
C22_Witness ==
    /\ headingsCacheHas(headingsCache, AnchorFile)
    /\ AnchorFile \in files
    /\ contents[AnchorFile] = <<"# abc", "## Abd {#ABd}">>
    /\ EntryOf(headingsCache, AnchorFile).headings
          = parseMarkdownHeadings(AnchorFile, <<"# ab">>).headings
    /\ headingsGot = [filePath |-> AnchorFile, found |-> TRUE,
                      headings |-> EntryOf(headingsCache, AnchorFile).headings]
    /\ anchorCall = [targetFile |-> AnchorFile, anchor |-> "ab"]
    /\ anchorResult.valid


(***************************************************************************)
(* The strategies that search the file index: runs of the suggestion       *)
(* engine on trees with files of the same name, of a similar path and of   *)
(* the same path in another case                                           *)
(***************************************************************************)
StrategyOptionalFiles ==
    {"x/odl.md", "d/old.md", "x/old.md", "d/x/old.md", "d/guides/setup-notes.md",
     "d/guide/set-up-notes.md", "d/guides/startup-new.md"}

StrategyListings ==
    {<<"d/a.md", "d/guide/set-up-notes.md", "d/guides/setup-notes.md",
       "d/guides/startup-new.md", "d/old.md", "d/x/old.md", "x/odl.md", "x/old.md">>,
     <<"x/old.md", "x/odl.md", "d/x/old.md", "d/old.md", "d/guides/startup-new.md",
       "d/guides/setup-notes.md", "d/guide/set-up-notes.md", "d/a.md">>}

StrategyDocuments ==
    {Document("d/a.md", <<"odl", "OLD.md">>),
     Document("d/a.md", <<"guides/setup-note.md", "old.md">>)}

InitStrategies ==
    /\ \E opt \in SUBSET StrategyOptionalFiles : files = SuggestSourceFiles \cup opt
    /\ redirectEntries = <<>>
    /\ listing \in StrategyListings
    /\ ValidatorIdle
    /\ SuggestIdle
    /\ NoDisk
    /\ FixerIdle
    /\ FixModeIdle
    /\ ParserIdle
    /\ AnchorIdle
    /\ ServerIdle
    /\ BatchIdle
    /\ SummaryIdle
    /\ CheckerIdle

NextStrategies ==
    \/ \E doc \in StrategyDocuments, withMap \in BOOLEAN : CheckLinks(doc, withMap)
    \/ FindAllFixSuggestions
    \/ ClearFilesCache

SpecStrategies == InitStrategies /\ [][NextStrategies]_vars

(***************************************************************************)
(* Claims about the basename strategy                                      *)
(***************************************************************************)
\* The index the strategies search.
IndexedFiles == getAllFiles(files, listing)

\* The indexed files whose file name is that of the broken path, compared
\* in lower case, with the extension kept or stripped.
NameCandidates(brokenPath, includeExt) ==
    {f \in {IndexedFiles[k] : k \in 1..Len(IndexedFiles)} :
        ToLower(getBasename(f, includeExt)) = ToLower(getBasename(brokenPath, includeExt))}

\* What the basename strategy is to give for a set of candidates: the one
\* candidate; of several the one of the highest path-overlap score if that
\* score is above 0.5; nothing otherwise.
BasenameRule(brokenPath, candidates, result) ==
    IF Cardinality(candidates) = 1
    THEN /\ result.confidence = "medium"
         /\ result.suggestedPath \in candidates
    ELSE IF \E f \in candidates : FracGreater(calculatePathSimilarity(brokenPath, f), <<1, 2>>)
    THEN /\ result.confidence = "medium"
         /\ result.suggestedPath \in candidates
         /\ \A f \in candidates :
               ~FracGreater(calculatePathSimilarity(brokenPath, f),
                            calculatePathSimilarity(brokenPath, result.suggestedPath))
    ELSE ~IsSuggestion(result)

\* C23 as stated: the candidates of the basename strategy are the indexed
\* files whose file name without its extension is that of the broken path
\* without its extension, compared without regard to case; one candidate is
\* suggested at medium confidence, of several the one of the highest
\* path-overlap score if that score is above 0.5, and nothing otherwise.
C23_AsStated ==
    \A i \in 1..Len(suggestions) :
        LET brokenPath == brokenPathOf(suggestions[i].broken)
        IN  BasenameRule(brokenPath, NameCandidates(brokenPath, FALSE),
                         StrategyResults(suggestions[i].broken)[2])

\* What findByBasename does: the rule holds with the candidates taken as
\* the indexed files whose file name with its extension is that of the
\* broken path with its extension.
BasenameWithExtension ==
    \A i \in 1..Len(suggestions) :
        LET brokenPath == brokenPathOf(suggestions[i].broken)
        IN  BasenameRule(brokenPath, NameCandidates(brokenPath, TRUE),
                         StrategyResults(suggestions[i].broken)[2])

\* C23 witness: the broken path d/odl has no extension, x/odl.md is the one
\* indexed file named odl once extensions are stripped, and the basename
\* strategy gave nothing; another broken path of the run, d/OLD.md, got the
\* one file of its name.
C23_Witness ==
    /\ \E i \in 1..Len(suggestions) :
          /\ brokenPathOf(suggestions[i].broken) = "d/odl"
          /\ NameCandidates("d/odl", FALSE) = {"x/odl.md"}
          /\ ~IsSuggestion(StrategyResults(suggestions[i].broken)[2])
    /\ \E i \in 1..Len(suggestions) :
          /\ brokenPathOf(suggestions[i].broken) = "d/OLD.md"
          /\ StrategyResults(suggestions[i].broken)[2].suggestedPath = "x/old.md"


(***************************************************************************)
(* Claims about the similarity strategy                                    *)
(***************************************************************************)
\* The edit distance of an indexed file to the broken path, both in lower
\* case.
DistanceTo(brokenPath, f) == levenshtein(ToLower(brokenPath), ToLower(f))

\* The distances up to which an indexed file makes the similarity strategy
\* give a suggestion for the broken path.
WithinReach(brokenPath, d) ==
    /\ d <= Min(10, (3 * Len(brokenPath)) \div 10)
    /\ d <= 5

\* C24: for a broken path of length L the similarity strategy gives a
\* suggestion exactly when some indexed file is at a case-insensitive edit
\* distance d <= min(10, floor(0.3 * L)) with d <= 5; the file suggested is
\* at the least distance of all indexed files; the confidence is medium for
\* d <= 2 and low for 3 <= d <= 5; and the basename strategy never suggests
\* a file whose file name is not that of the broken path.
C24_SimilarityThresholds ==
    \A i \in 1..Len(suggestions) :
        LET brokenPath == brokenPathOf(suggestions[i].broken)
            indexed == {IndexedFiles[k] : k \in 1..Len(IndexedFiles)}
            similar == StrategyResults(suggestions[i].broken)[3]
            byName == StrategyResults(suggestions[i].broken)[2]
        IN  /\ IsSuggestion(similar)
                 <=> \E f \in indexed : WithinReach(brokenPath, DistanceTo(brokenPath, f))
            /\ IsSuggestion(similar) =>
                  /\ similar.suggestedPath \in indexed
                  /\ \A f \in indexed : DistanceTo(brokenPath, similar.suggestedPath)
                                           <= DistanceTo(brokenPath, f)
                  /\ similar.confidence =
                        IF DistanceTo(brokenPath, similar.suggestedPath) <= 2 THEN "medium"
                        ELSE "low"
                  /\ DistanceTo(brokenPath, similar.suggestedPath) <= 5
            /\ IsSuggestion(byName) =>
                  ToLower(PathBasename(byName.suggestedPath)) = ToLower(PathBasename(brokenPath))

\* C24 witness: the broken path d/guides/setup-note.md, of 22 characters,
\* has the indexed file d/guide/set-up-notes.md at distance 3 and
\* d/guides/startup-new.md at distance 6; no indexed file has its file name,
\* the basename strategy gave nothing and the file at distance 3 is
\* suggested at low confidence.  For the other broken path of the run,
\* d/old.md, the file x/odl.md at distance 3 is beyond floor(0.3 * 8) = 2 and
\* nothing is suggested.
C24_Witness ==
    /\ \E i \in 1..Len(suggestions) :
          /\ brokenPathOf(suggestions[i].broken) = "d/guides/setup-note.md"
          /\ {IndexedFiles[k] : k \in 1..Len(IndexedFiles)}
                = {"d/a.md", "d/guide/set-up-notes.md", "d/guides/startup-new.md", "x/odl.md"}
          /\ ~IsSuggestion(StrategyResults(suggestions[i].broken)[2])
          /\ suggestions[i].suggestion.suggestedPath = "d/guide/set-up-notes.md"
          /\ suggestions[i].suggestion.confidence = "low"
          /\ suggestions[i].suggestion.reason = "Similar path found (edit distance: 3)"
    /\ \E i \in 1..Len(suggestions) :
          /\ brokenPathOf(suggestions[i].broken) = "d/old.md"
          /\ ~IsSuggestion(StrategyResults(suggestions[i].broken)[3])


(***************************************************************************)
(* Claims about the case-variation strategy                                *)
(***************************************************************************)
\* The indexed files that are the broken path in another case.
OtherCaseFiles(brokenPath) ==
    {f \in {IndexedFiles[k] : k \in 1..Len(IndexedFiles)} :
        ToLower(f) = ToLower(brokenPath) /\ f # brokenPath}

\* C28: the case-variation strategy never determines the result of
\* findFixSuggestion: whenever an indexed file is the broken path in another
\* case, the basename strategy or the similarity strategy gives a
\* suggestion, so no suggestion carries the reason 'Case variation of path
\* exists'.
C28_CaseVariationUnreachable ==
    \A i \in 1..Len(suggestions) :
        LET brokenPath == brokenPathOf(suggestions[i].broken)
            results == StrategyResults(suggestions[i].broken)
        IN  /\ OtherCaseFiles(brokenPath) # {} =>
                  IsSuggestion(results[2]) \/ IsSuggestion(results[3])
            /\ suggestions[i].suggestion.reason # "Case variation of path exists"

\* C28 witness: d/old.md is the broken path d/OLD.md in another case, the
\* case-variation strategy has an answer, the basename strategy gave
\* nothing because two files are named old.md and neither scores above 0.5,
\* and the suggestion is that of the similarity strategy, at distance 0.
C28_Witness ==
    \E i \in 1..Len(suggestions) :
        /\ brokenPathOf(suggestions[i].broken) = "d/OLD.md"
        /\ OtherCaseFiles("d/OLD.md") = {"d/old.md"}
        /\ StrategyResults(suggestions[i].broken)[4].reason = "Case variation of path exists"
        /\ ~IsSuggestion(StrategyResults(suggestions[i].broken)[2])
        /\ suggestions[i].suggestion.suggestedPath = "d/old.md"
        /\ suggestions[i].suggestion.reason = "Similar path found (edit distance: 0)"


(***************************************************************************)
(* Claims about the link a fix leaves in the file                          *)
(***************************************************************************)
\* The links of the line of FixResult j, with the text of its link, as
\* parseMarkdownLinks finds them in the file as it is after the call.
RewrittenLinks(j) ==
    LET reparsed == parseMarkdownLinks(fixResults[j].sourceFile,
                                       contents[fixResults[j].sourceFile]).links
    IN  {reparsed[n] : n \in {m \in 1..Len(reparsed) :
                                /\ reparsed[m].line = fixResults[j].originalLink.line
                                /\ reparsed[m].text = fixResults[j].originalLink.text}}

\* The link of FixResult j is there after the call, is valid from its
\* source file, resolves to the path suggested and has the anchor it had.
ReallyFixed(j) ==
    /\ RewrittenLinks(j) # {}
    /\ \A link \in RewrittenLinks(j) :
          LET validated == validateLink(files, <<>>, FALSE, fixResults[j].sourceFile, link)
          IN  /\ validated.status = "valid"
              /\ validated.resolvedPath = fixResults[j].newPath
              /\ link.anchor = fixResults[j].originalLink.anchor

\* applyFixes returned, and FixResult j reports success for a suggestion
\* that names an existing file.
FixedToExistingFile(j) ==
    /\ fixCall.op = "applyFixes"
    /\ fixThrown = Undefined
    /\ fixResults[j].success
    /\ fixResults[j].newPath \in files

\* C25 as stated: for every broken link and every suggestion that names an
\* existing file, when applyFixes reports success the link parsed from the
\* rewritten line validates from the same source file as valid, with the
\* suggested path as its resolved path and with the original anchor.
C25_AsStated ==
    \A j \in 1..Len(fixResults) : FixedToExistingFile(j) => ReallyFixed(j)

\* What holds: the same for every suggested path without the character $.
ReallyFixedWithoutDollar ==
    \A j \in 1..Len(fixResults) :
        (FixedToExistingFile(j) /\ ~Includes(fixResults[j].newPath, "$")) => ReallyFixed(j)

\* C25 failing run: the fix of [z](gone.md#s) to the existing docs/a$$b.md
\* was reported successful and the link written does not resolve to that
\* file; the fix of [w](../old.md) in docs/b.md of the same batch resolves
\* to old2.md as suggested.
C25_Witness ==
    /\ \E j \in 1..Len(fixResults) :
          /\ FixedToExistingFile(j)
          /\ fixResults[j].newPath = "docs/a$$b.md"
          /\ \E link \in RewrittenLinks(j) :
                /\ link.anchor = "s"
                /\ validateLink(files, <<>>, FALSE, "docs/a.md", link).status = "broken"
    /\ \E j \in 1..Len(fixResults) :
          /\ FixedToExistingFile(j)
          /\ fixResults[j].sourceFile = "docs/b.md"
          /\ ReallyFixed(j)


(***************************************************************************)
(* Claims about the occurrences a batch rewrites                           *)
(***************************************************************************)
\* The links of a source file before the call and after it.
LinksBefore(f) == parseMarkdownLinks(f, contentsBefore[f]).links

LinksAfter(f) == parseMarkdownLinks(f, contents[f]).links

\* The fix is for this occurrence of a link of the file.
Addresses(fix, f, link) ==
    /\ fix.broken.sourceFile = f
    /\ fix.broken.link.line = link.line
    /\ fix.broken.link.column = link.column
    /\ fix.broken.link.raw = link.raw

\* The target of a link as the document spells it.
SpelledTarget(link) == link.target \o (IF Truthy(link.anchor) THEN "#" \o link.anchor ELSE "")

\* The n-th link of the file is not what it was.
Rewritten(f, n) == SpelledTarget(LinksAfter(f)[n]) # SpelledTarget(LinksBefore(f)[n])

\* applyFixes returned from a batch.
BatchReturned == fixCall.op = "applyFixes" /\ fixThrown = Undefined

\* C26 as stated: each fix of a batch rewrites exactly the occurrence it
\* addresses: its FixResult reports success exactly when that occurrence
\* points to the new target in the file as written, and an occurrence that
\* no fix addresses is not rewritten.
C26_AsStated ==
    BatchReturned =>
        \A f \in FixSourceFiles :
            /\ Len(LinksAfter(f)) = Len(LinksBefore(f))
            /\ \A n \in 1..Len(LinksBefore(f)) :
                  (\A i \in 1..Len(fixCall.fixes) :
                      ~Addresses(fixCall.fixes[i], f, LinksBefore(f)[n]))
                  => ~Rewritten(f, n)
            /\ \A j \in 1..Len(fixResults) :
                  fixResults[j].sourceFile = f =>
                     (fixResults[j].success
                        <=> \E n \in 1..Len(LinksBefore(f)) :
                               /\ LinksBefore(f)[n].line = fixResults[j].originalLink.line
                               /\ LinksBefore(f)[n].column = fixResults[j].originalLink.column
                               /\ LinksBefore(f)[n].raw = fixResults[j].originalLink.raw
                               /\ SpelledTarget(LinksAfter(f)[n]) = NewTargetText(fixResults[j]))

\* What holds: an occurrence is rewritten only when a successful fix of the
\* batch is for its line and for a target spelled as its own.
RewrittenWithItsLine ==
    BatchReturned =>
        \A f \in FixSourceFiles :
            /\ Len(LinksAfter(f)) = Len(LinksBefore(f))
            /\ \A n \in 1..Len(LinksBefore(f)) :
                  Rewritten(f, n) =>
                     \E j \in 1..Len(fixResults) :
                        /\ fixResults[j].success
                        /\ fixResults[j].sourceFile = f
                        /\ fixResults[j].originalLink.line = LinksBefore(f)[n].line
                        /\ SpelledTarget(fixResults[j].originalLink)
                              = SpelledTarget(LinksBefore(f)[n])

\* C26 failing run: the one fix of the batch is for [x](old.md) at column 1
\* of line 2 of docs/a.md and was reported successful; the link
\* [x2](old.md) of the same line, which no fix addresses, points to
\* ./new.md as well.
C26_Witness ==
    /\ BatchReturned
    /\ Len(fixCall.fixes) = 1
    /\ fixCall.fixes[1].broken.link.raw = "[x](old.md)"
    /\ fixResults[1].success
    /\ \E n \in 1..Len(LinksBefore("docs/a.md")) :
          /\ LinksBefore("docs/a.md")[n].raw = "[x2](old.md)"
          /\ ~Addresses(fixCall.fixes[1], "docs/a.md", LinksBefore("docs/a.md")[n])
          /\ LinksAfter("docs/a.md")[n].target = "./new.md"


(***************************************************************************)
(* Claims about the redirects a batch leaves for its broken links          *)
(***************************************************************************)
\* The redirect table read from the configuration as it is now.
TableNow == parseGitBookYaml(gitbookYaml)

\* The fixes of the batch that result j is for.
FixesOf(j) ==
    {i \in 1..Len(fixCall.fixes) :
        /\ fixCall.fixes[i].broken.sourceFile = run.results[j].sourceFile
        /\ fixCall.fixes[i].broken.link = run.results[j].originalLink
        /\ fixCall.fixes[i].suggestion.suggestedPath = run.results[j].newPath}

\* The batch has appended its redirects to the configuration.
RedirectsAppended == fixCall.op = "applyFixesWithRedirects" /\ ResultsReturned /\ ConfigWritten

\* The table read back leads from the resolved path of the broken link of
\* fix i to the new path, and the link as it was is redirect-available.
RoundTrip(i) ==
    LET broken == fixCall.fixes[i].broken
    IN  /\ findRedirectTarget(TableNow, broken.resolvedPath)
              = fixCall.fixes[i].suggestion.suggestedPath
        /\ validateLink(files, TableNow, TRUE, broken.sourceFile, broken.link).status
              = "redirect-available"

\* C27 as stated: for every successful fix of a batch whose redirects were
\* appended, the configuration read back has an entry keyed by the resolved
\* path of the broken link: findRedirectTarget on that path gives the new
\* path and the original link validates as redirect-available.
C27_AsStated ==
    RedirectsAppended =>
        \A j \in 1..Len(run.results) :
            run.results[j].success => \A i \in FixesOf(j) : RoundTrip(i)

\* What holds: the entries are keyed by the target as the link spells it,
\* without a leading "./" and a trailing ".md": the table read back leads
\* from that spelling to the new path of the last fix that gives it.
KeyedBySpelledTarget ==
    RedirectsAppended =>
        \A j \in 1..Len(run.results) :
            GivesRedirect(j) =>
                \E l \in j..Len(run.results) :
                    /\ GivesRedirect(l)
                    /\ RedirectFrom(run.results[l]) = RedirectFrom(run.results[j])
                    /\ findRedirectTarget(TableNow, RedirectFrom(run.results[j]))
                          = run.results[l].newPath

\* C27 failing run: the fix of [x](old.md) in docs/a.md, which resolves to
\* docs/old.md, succeeded; the configuration read back holds the entry
\* old -> docs/new.md and none for docs/old.md, and the link validates as
\* broken.
C27_Witness ==
    /\ RedirectsAppended
    /\ \E j \in 1..Len(run.results) :
          /\ run.results[j].success
          /\ run.results[j].originalLink.raw = "[x](old.md)"
          /\ \E i \in FixesOf(j) :
                /\ fixCall.fixes[i].broken.resolvedPath = "docs/old.md"
                /\ findRedirectTarget(TableNow, "old") = "docs/new.md"
                /\ findRedirectTarget(TableNow, "docs/old.md") = Undefined
                /\ validateLink(files, TableNow, TRUE, "docs/a.md",
                                fixCall.fixes[i].broken.link).status = "broken"


(***************************************************************************)
(* The redirect checker: checkRedirects on the entries of a configuration  *)
(***************************************************************************)
\* The most entries a configuration of these runs holds.
MaxChecked == 2

CheckOptionalFiles == {"old.md", "new.md", "dir/README.md"}

CheckBuiltFiles == {"new.html", "dir/index.html"}

\* The lines of the redirects block, as key and value.
CheckRedirectLines ==
    {<<"old", "new.md">>, <<"old", "gone.md">>, <<"dir", "dir/README.md">>,
     <<"was", "dir/README.md">>}

CheckedLists ==
    UNION {[1..n -> {parsedRedirect(l[1], l[2]) : l \in CheckRedirectLines}] :
              n \in 0..MaxChecked}

InitCheck ==
    /\ files \in SUBSET CheckOptionalFiles
    /\ redirectEntries = <<>>
    /\ listing = <<>>
    /\ ValidatorIdle
    /\ SuggestIdle
    /\ NoDisk
    /\ FixerIdle
    /\ FixModeIdle
    /\ ParserIdle
    /\ AnchorIdle
    /\ ServerIdle
    /\ BatchIdle
    /\ SummaryIdle
    /\ redirectsChecked = <<>>
    /\ builtFiles \in SUBSET CheckBuiltFiles
    /\ checkResult = NoCheck

\* checkRedirects(redirects, projectRoot)
CheckRedirects(redirects) ==
    /\ ~checkResult.checked
    /\ redirectsChecked' = redirects
    /\ checkResult' = checkRedirects(files, builtFiles, redirects)
    /\ UNCHANGED <<envVars, summaryVars, builtFiles, validatorVars, suggestVars, diskVars,
                   fixerVars, fixModeVars, parserVars, anchorVars, serverVars, batchVars>>

NextCheck == \E redirects \in CheckedLists : CheckRedirects(redirects)

SpecCheck == InitCheck /\ [][NextCheck]_vars

(***************************************************************************)
(* Claims about the redirect checker                                       *)
(***************************************************************************)
\* The entries of the list that the result names among its issues.
NamedIn(issues) ==
    {k \in 1..Len(redirectsChecked) :
        \E n \in 1..Len(issues) :
            /\ issues[n].from = redirectsChecked[k].from
            /\ issues[n].to = redirectsChecked[k].to}

\* C30 as stated: the valid count of checkRedirects is the number of
\* entries that are neither in skipped nor in broken, so it lies between 0
\* and total, and each entry is counted in exactly one of valid, skipped and
\* broken.
C30_AsStated ==
    checkResult.checked =>
        /\ checkResult.total = Len(redirectsChecked)
        /\ checkResult.valid =
              Cardinality((1..Len(redirectsChecked))
                             \ (NamedIn(checkResult.skipped) \cup NamedIn(checkResult.broken)))
        /\ 0 <= checkResult.valid
        /\ checkResult.valid <= checkResult.total
        /\ NamedIn(checkResult.skipped) \cap NamedIn(checkResult.broken) = {}
        /\ checkResult.valid + Len(checkResult.skipped) + Len(checkResult.broken)
              = checkResult.total

\* What holds: skipped holds the entries whose source exists as other
\* content and broken those whose target does not exist, each in the order
\* of the list; valid is total less the lengths of both, so an entry that
\* is in both is taken off twice.
CountedPerList ==
    checkResult.checked =>
        /\ checkResult.total = Len(redirectsChecked)
        /\ NamedIn(checkResult.skipped) =
              {k \in 1..Len(redirectsChecked) :
                  hasRedirectConflict(files, builtFiles, redirectsChecked[k].from,
                                      redirectsChecked[k].to)}
        /\ NamedIn(checkResult.broken) =
              {k \in 1..Len(redirectsChecked) :
                  ~targetPathExists(files, builtFiles, redirectsChecked[k].to)}
        /\ checkResult.valid
              = checkResult.total - Len(checkResult.skipped) - Len(checkResult.broken)
        /\ checkResult.valid <= checkResult.total

\* C30 failing run: the one entry old -> gone.md has a source old.md that
\* exists and a target that does not; it is in skipped and in broken, and
\* valid is -1.
C30_Witness ==
    /\ checkResult.checked
    /\ redirectsChecked = <<parsedRedirect("old", "gone.md")>>
    /\ "old.md" \in files
    /\ Len(checkResult.skipped) = 1
    /\ Len(checkResult.broken) = 1
    /\ checkResult.valid = -1

====
